---- MODULE Spec2Model ----
(***************************************************************************)
(* Model of the message mirror: the live watcher (src/live_sync), the sync *)
(* engine (sync_messages), the backup loader (load_messages) and the       *)
(* conversation engine (src/etl_conversations.py).                         *)
(*                                                                         *)
(* Encoding.  Python None / SQL NULL is NULL (-1) for integers and 0 for   *)
(* row ids (AUTOINCREMENT ids start at 1, and the code tests ids with      *)
(* "if not id").  Timestamps are seconds since the source epoch: the       *)
(* source writes nanosecond dates above 10^16, which to_nanos leaves as    *)
(* they are and _convert_apple_timestamp divides by 10^9; the model keeps  *)
(* the seconds.  The source writes multiples of DEFAULT_GAP_THRESHOLD, so  *)
(* that two neighbouring timestamps are exactly one threshold apart.       *)
(*                                                                         *)
(* A handle of chat.db (a phone number as written there) is a number       *)
(* h >= 1; handles 2k-1 and 2k are two spellings of the same number, whose *)
(* normalised form is k.  0 is the empty string.  A participants string   *)
(* and a chat identifier are the sets of the handles they list.  Chat k of *)
(* chat.db (k in 1..NumChats) has the one participant 2k-1, so that its    *)
(* chat identifier is {k}; chat 0 is a chat without participants, and chat *)
(* NumChats + 1 is a group of the two participants 1 and 3.                *)
(***************************************************************************)
EXTENDS Integers, Sequences, FiniteSets, TLC

\* ---------------------------------------------------------------- bounds
MaxRows == 4
MaxLiveRows == 3
MaxTick == 2
NumChats == 2
MaxConvSeq == 5
MaxRestarts == 2
MaxRestartRows == 2
MaxSyncRows == 2
MaxSplitLen == 4
MaxEtlRows == 3
MaxEtlConvs == 3
MaxEtlCount == 4
MaxStartRows == 2
MaxStartAtts == 2
MaxLoopRows == 2
MaxQueue == 2
MaxClock == 8

\* ----------------------------------------------------- program constants
DEFAULT_GAP_THRESHOLD == 10800

NULL == 0 - 1

Times == {k * DEFAULT_GAP_THRESHOLD : k \in 0..MaxTick}
ChatRowids == 1..NumChats
ReactionTypes == {2000}

VARIABLES
    source,     \* chat.db: the message rows, in ROWID order (message_id = index)
    attachment, \* chat.db: the attachment rows joined to their messages
    db,         \* the internal store: its tables and the live_sync_state keys
    cache,      \* live_sync/cache.py: the module-level caches
    watcher,    \* watch(): its local variables and its position
    loop,       \* the event loop: the Poller task, the queue, the Consumer's await
    hist        \* what the last operation was and what it returned

vars == <<source, attachment, db, cache, watcher, loop, hist>>

\* ------------------------------------------------------------- utilities
\* Time in units of 25 ms: DEBOUNCE_MS = 50 is two units, the sleep of
\* DEBOUNCE_MS / 1000 + 0.025 s is three.
DEBOUNCE_MS == 2
SleepTicks == DEBOUNCE_MS + 1

\* The event loop where it is left out of account: no event queued, the
\* clock at its origin, far from last_sync_time = 0.0.
LoopIdle ==
    [pc |-> "get", poller |-> "running", queue |-> 0, now |-> DEBOUNCE_MS,
     last_sync_time |-> 0, wake |-> 0]

EmptyMap == [x \in {} |-> 0]

MapGet(m, k) == IF k \in DOMAIN m THEN m[k] ELSE 0

MapPut(m, k, v) == [x \in (DOMAIN m) \cup {k} |-> IF x = k THEN v ELSE m[x]]

SetMax(S) == CHOOSE x \in S : \A y \in S : y <= x

SetMin(S) == CHOOSE x \in S : \A y \in S : x <= y

SeqToSet(s) == {s[i] : i \in DOMAIN s}

RECURSIVE SetToSeq(_)
SetToSeq(S) == IF S = {} THEN <<>>
               ELSE LET x == SetMin(S) IN <<x>> \o SetToSeq(S \ {x})

\* ------------------------------------------------- conversation engine
\* The messages table as seen by a query: message ids.
MsgIds(d) == DOMAIN d.messages

\* ORDER BY m.timestamp: ascending by timestamp; rows of equal timestamp
\* come in rowid order (the table scan's order).
Before(d, i, j) ==
    \/ d.messages[i].ts < d.messages[j].ts
    \/ d.messages[i].ts = d.messages[j].ts /\ i <= j

RECURSIVE OrderByTimestamp(_, _)
OrderByTimestamp(d, S) ==
    IF S = {} THEN <<>>
    ELSE LET i == CHOOSE x \in S : \A y \in S : Before(d, x, y)
         IN <<i>> \o OrderByTimestamp(d, S \ {i})

\* One block of _split_into_conversations.
Block(ids, start, end, chat) ==
    [message_ids |-> ids, start_time |-> start, end_time |-> end, chat_id |-> chat]

\* Mutant of SplitStep: a gap equal to the threshold closes the block too.
SplitStepAtThreshold(d, st, i, gap) ==
    LET t == d.messages[i].ts IN
    IF st.start = NULL
    THEN [convs |-> st.convs, cur |-> <<i>>, start |-> t, last |-> t]
    ELSE IF t - st.last >= gap
         THEN [convs |-> Append(st.convs,
                                Block(st.cur, st.start, st.last, d.messages[i].chat_id)),
               cur |-> <<i>>, start |-> t, last |-> t]
         ELSE [convs |-> st.convs, cur |-> Append(st.cur, i),
               start |-> st.start, last |-> t]

\* The body of the loop of _split_into_conversations, for message ids[k].
SplitStep(d, st, i, gap) ==
    LET t == d.messages[i].ts IN
    IF st.start = NULL
    THEN [convs |-> st.convs, cur |-> <<i>>, start |-> t, last |-> t]
    ELSE IF t - st.last > gap
         THEN [convs |-> IF st.cur # <<>>
                         THEN Append(st.convs,
                                     Block(st.cur, st.start, st.last, d.messages[i].chat_id))
                         ELSE st.convs,
               cur |-> <<i>>, start |-> t, last |-> t]
         ELSE [convs |-> st.convs, cur |-> Append(st.cur, i),
               start |-> st.start, last |-> t]

RECURSIVE SplitLoop(_, _, _, _, _)
SplitLoop(d, ids, k, gap, st) ==
    IF k > Len(ids) THEN st
    ELSE SplitLoop(d, ids, k + 1, gap, SplitStep(d, st, ids[k], gap))

\* _split_into_conversations(messages, gap_threshold); messages is the
\* sequence ids of message ids, sorted by timestamp.
SplitIntoConversations(d, ids, gap) ==
    IF ids = <<>> THEN <<>>
    ELSE LET st == SplitLoop(d, ids, 1, gap,
                             [convs |-> <<>>, cur |-> <<>>, start |-> NULL, last |-> NULL])
         IN IF st.cur # <<>>
            THEN Append(st.convs,
                        Block(st.cur, st.start, st.last, d.messages[ids[1]].chat_id))
            ELSE st.convs

\* extract_conversations(chat_id, since_date, gap_threshold): the watcher
\* always passes a chat id and a since date ("if chat_id:", "if since_date:"
\* both hold); chat = 0 or since = NULL drop the condition.
ExtractConversations(d, chat, since, gap) ==
    LET sel(c) == {i \in MsgIds(d) :
                      /\ d.messages[i].chat_id = c
                      /\ d.messages[i].ts # NULL
                      /\ (since = NULL \/ d.messages[i].ts >= since)}
        chatsOf == IF chat # 0 THEN {chat}
                   ELSE {d.messages[i].chat_id : i \in MsgIds(d)}
        RECURSIVE perChat(_)
        perChat(cs) ==
            IF cs = {} THEN <<>>
            ELSE LET c == SetMin(cs)
                 IN SplitIntoConversations(d, OrderByTimestamp(d, sel(c)), gap)
                      \o perChat(cs \ {c})
    IN perChat(chatsOf)

\* transform_conversations: blocks without a sender-bearing message are
\* dropped; the initiator is the first message with a sender.
TransformOne(d, blk, gap) ==
    LET withSender == SelectSeq(blk.message_ids, LAMBDA i : d.messages[i].sender_id # 0)
    IN [chat_id |-> blk.chat_id,
        initiator_id |-> d.messages[withSender[1]].sender_id,
        start_time |-> blk.start_time,
        end_time |-> blk.end_time,
        message_count |-> Len(blk.message_ids),
        message_ids |-> blk.message_ids,
        gap_threshold |-> gap]

RECURSIVE TransformConversations(_, _, _)
TransformConversations(d, raw, gap) ==
    IF raw = <<>> THEN <<>>
    ELSE LET blk == Head(raw)
             rest == TransformConversations(d, Tail(raw), gap)
         IN IF \E k \in DOMAIN blk.message_ids :
                   d.messages[blk.message_ids[k]].sender_id # 0
            THEN <<TransformOne(d, blk, gap)>> \o rest
            ELSE rest

\* UPDATE messages SET conversation_id = :c WHERE id IN (ids)
Attach(msgs, ids, c) ==
    [i \in DOMAIN msgs |->
        IF i \in ids THEN [msgs[i] EXCEPT !.conversation_id = c] ELSE msgs[i]]

ConvsOfChat(d, chat) == {c \in d.conversations : c.chat_id = chat}

\* A variant that selects the chat's conversation with the earliest end time.
LastConvOldest(d, chat, tieHigh) ==
    LET cs == ConvsOfChat(d, chat)
        top == {c \in cs : \A o \in cs : c.end_time <= o.end_time}
        pick == IF tieHigh THEN SetMax({c.id : c \in top}) ELSE SetMin({c.id : c \in top})
        row == CHOOSE c \in top : c.id = pick
    IN IF cs = {} THEN [id |-> 0, end_time |-> NULL]
       ELSE [id |-> row.id, end_time |-> row.end_time]

\* SELECT ... FROM conversations WHERE chat_id = :chat_id
\* ORDER BY end_time DESC LIMIT 1.  SQL leaves the order of rows of equal
\* end_time open: tieHigh picks which of them is returned.
LastConv(d, chat, tieHigh) ==
    LET cs == ConvsOfChat(d, chat)
        top == {c \in cs : \A o \in cs : o.end_time <= c.end_time}
        pick == IF tieHigh THEN SetMax({c.id : c \in top}) ELSE SetMin({c.id : c \in top})
        row == CHOOSE c \in top : c.id = pick
    IN IF cs = {} THEN [id |-> 0, end_time |-> NULL]
       ELSE [id |-> row.id, end_time |-> row.end_time]

\* A variant of the loop body that appends only when the segment starts less
\* than the gap threshold after the last conversation's end.
LoadStepBelowThreshold(st, conv) ==
    LET d == st.db
        last == MapGet(st.last, conv.chat_id)
        has == conv.chat_id \in DOMAIN st.last
        time_diff == conv.start_time - last.end_time
        can_append == has /\ time_diff >= 0 /\ time_diff < conv.gap_threshold
        ids == SeqToSet(conv.message_ids)
    IN IF can_append
       THEN LET old == CHOOSE c \in d.conversations : c.id = last.id
                new == [old EXCEPT !.end_time = conv.end_time,
                                   !.message_count = @ + conv.message_count]
            IN [db |-> [d EXCEPT !.conversations = (@ \ {old}) \cup {new},
                                 !.messages = Attach(@, ids, last.id)],
                last |-> MapPut(st.last, conv.chat_id,
                                [id |-> last.id, end_time |-> conv.end_time]),
                imported |-> st.imported,
                updated |-> st.updated + 1]
       ELSE LET new_id == d.conv_seq + 1
                row == [id |-> new_id, chat_id |-> conv.chat_id,
                        initiator_id |-> conv.initiator_id,
                        start_time |-> conv.start_time, end_time |-> conv.end_time,
                        message_count |-> conv.message_count,
                        gap_threshold |-> conv.gap_threshold]
            IN [db |-> [d EXCEPT !.conversations = @ \cup {row},
                                 !.conv_seq = new_id,
                                 !.messages = Attach(@, ids, new_id)],
                last |-> MapPut(st.last, conv.chat_id,
                                [id |-> new_id, end_time |-> conv.end_time]),
                imported |-> st.imported + 1,
                updated |-> st.updated]

\* The body of "for conv in conversations" of load_conversations; last is
\* existing_convs_by_chat, a map from chat id to the in-memory last
\* conversation.
LoadStep(st, conv) ==
    LET d == st.db
        last == MapGet(st.last, conv.chat_id)
        has == conv.chat_id \in DOMAIN st.last
        time_diff == conv.start_time - last.end_time
        can_append == has /\ time_diff >= 0 /\ time_diff <= conv.gap_threshold
        ids == SeqToSet(conv.message_ids)
    IN IF can_append
       THEN LET old == CHOOSE c \in d.conversations : c.id = last.id
                new == [old EXCEPT !.end_time = conv.end_time,
                                   !.message_count = @ + conv.message_count]
            IN [db |-> [d EXCEPT !.conversations = (@ \ {old}) \cup {new},
                                 !.messages = Attach(@, ids, last.id)],
                last |-> MapPut(st.last, conv.chat_id,
                                [id |-> last.id, end_time |-> conv.end_time]),
                imported |-> st.imported,
                updated |-> st.updated + 1]
       ELSE LET new_id == d.conv_seq + 1
                row == [id |-> new_id, chat_id |-> conv.chat_id,
                        initiator_id |-> conv.initiator_id,
                        start_time |-> conv.start_time, end_time |-> conv.end_time,
                        message_count |-> conv.message_count,
                        gap_threshold |-> conv.gap_threshold]
            IN [db |-> [d EXCEPT !.conversations = @ \cup {row},
                                 !.conv_seq = new_id,
                                 !.messages = Attach(@, ids, new_id)],
                last |-> MapPut(st.last, conv.chat_id,
                                [id |-> new_id, end_time |-> conv.end_time]),
                imported |-> st.imported + 1,
                updated |-> st.updated]

RECURSIVE LoadLoop(_, _)
LoadLoop(st, convs) ==
    IF convs = <<>> THEN st ELSE LoadLoop(LoadStep(st, Head(convs)), Tail(convs))

\* load_conversations(conversations, chat_id)
LoadConversations(d, convs, chat, tieHigh) ==
    LET chat_ids == IF chat # 0 THEN {chat} ELSE {convs[k].chat_id : k \in DOMAIN convs}
        known == {c \in chat_ids : ConvsOfChat(d, c) # {}}
        last0 == [c \in known |-> LastConv(d, c, tieHigh)]
    IN IF convs = <<>> THEN [db |-> d, imported |-> 0, updated |-> 0]
       ELSE LET st == LoadLoop([db |-> d, last |-> last0, imported |-> 0, updated |-> 0],
                               convs)
            IN [db |-> st.db, imported |-> st.imported, updated |-> st.updated]

\* etl_conversations(chat_id, since_date, gap_threshold)
EtlConversations(d, chat, since, gap, tieHigh) ==
    LoadConversations(d,
        TransformConversations(d, ExtractConversations(d, chat, since, gap), gap),
        chat, tieHigh)

\* ------------------------------------------------------------ the caches
\* normalize_phone_number: the normalised form of a handle
NormalizeSender(s) == IF s = 0 THEN 0 ELSE (s + 1) \div 2

\* chat.db: GROUP_CONCAT(DISTINCT handle.id) of a chat, and the chats that
\* exist (a chat row is written with its first message)
GroupChatRowid == NumChats + 1

ChatParticipants(k) ==
    IF k = 0 THEN {} ELSE IF k = GroupChatRowid THEN {1, 3} ELSE {2 * k - 1}

\* generate_chat_identifier(participants): normalised, without duplicates,
\* sorted and joined
generate_chat_identifier(participants) == {NormalizeSender(h) : h \in participants}

SourceChats(src) == {src[k].chat : k \in DOMAIN src}

\* cache.py: a cache is reloaded when it is empty or not marked populated

RECURSIVE ContactMapOf(_, _)
ContactMapOf(idents, m) ==
    IF idents = <<>> THEN m
    ELSE ContactMapOf(Tail(idents),
                      MapPut(m, NormalizeSender(Head(idents).identifier),
                             Head(idents).contact_id))

get_contact_map(d, c, force_refresh) ==
    IF c.contact = EmptyMap \/ ~c.contact_populated \/ force_refresh
    THEN [c EXCEPT !.contact = ContactMapOf(d.contact_identifiers, EmptyMap),
                   !.contact_populated = TRUE]
    ELSE c

get_message_guid_to_id_map(d, c, force_refresh) ==
    IF c.message = EmptyMap \/ ~c.message_populated \/ force_refresh
    THEN [c EXCEPT !.message = [g \in {d.messages[i].guid : i \in MsgIds(d)} |->
                                   CHOOSE i \in MsgIds(d) : d.messages[i].guid = g],
                   !.message_populated = TRUE]
    ELSE c

get_chat_map(d, c, force_refresh) ==
    IF c.chat = EmptyMap \/ ~c.chat_populated \/ force_refresh
    THEN [c EXCEPT !.chat = [x \in {d.chats[i].chat_identifier : i \in DOMAIN d.chats} |->
                                CHOOSE i \in DOMAIN d.chats : d.chats[i].chat_identifier = x],
                   !.chat_populated = TRUE]
    ELSE c

get_reaction_guids(d, c, force_refresh) ==
    IF c.reaction = {} \/ ~c.reaction_populated \/ force_refresh
    THEN [c EXCEPT !.reaction = {d.reactions[i].guid : i \in DOMAIN d.reactions},
                   !.reaction_populated = TRUE]
    ELSE c

get_attachment_guids(d, c, force_refresh) ==
    IF c.attachment = {} \/ ~c.attachment_populated \/ force_refresh
    THEN [c EXCEPT !.attachment = {a.guid : a \in d.attachments},
                   !.attachment_populated = TRUE]
    ELSE c

\* chat.db chat ROWID -> participants
get_chat_participants_map(src, c, force_refresh) ==
    IF c.participants = EmptyMap \/ ~c.participants_populated \/ force_refresh
    THEN [c EXCEPT !.participants = [k \in SourceChats(src) |-> ChatParticipants(k)],
                   !.participants_populated = TRUE]
    ELSE c

reset_all_caches ==
    [contact |-> EmptyMap, contact_populated |-> FALSE,
     message |-> EmptyMap, message_populated |-> FALSE,
     chat |-> EmptyMap, chat_populated |-> FALSE,
     reaction |-> {}, reaction_populated |-> FALSE,
     attachment |-> {}, attachment_populated |-> FALSE,
     participants |-> EmptyMap, participants_populated |-> FALSE]

\* --------------------------------------------------------- sync_messages
\* SELECT id FROM contacts WHERE is_me = 1 (first row), 0 when there is none
UserContactId(d) ==
    LET me == {i \in DOMAIN d.contacts : d.contacts[i].is_me}
    IN IF me = {} THEN 0 ELSE SetMin(me)

\* Mutant of EnsureUser: the user's contact is inserted without the SELECT.
EnsureUserAgain(d) ==
    [d EXCEPT !.contacts =
        Append(@, [name |-> 0, is_me |-> TRUE, data_source |-> "system_user"])]

\* sync_messages lines 89-95: the user's contact is created when missing
EnsureUser(d) ==
    IF UserContactId(d) # 0 THEN d
    ELSE [d EXCEPT !.contacts =
             Append(@, [name |-> 0, is_me |-> TRUE, data_source |-> "system_user"])]

\* A variant of UnknownSenders without the "not in
\* unknown_sender_details_to_create" test: a second spelling of a canonical
\* identifier in the batch is collected again.
RECURSIVE UnknownSendersRepeated(_, _, _)
UnknownSendersRepeated(c, rows, acc) ==
    IF rows = <<>> THEN acc
    ELSE LET row == Head(rows)
             key == NormalizeSender(row.sender_identifier)
             fresh == /\ ~row.is_from_me
                      /\ row.sender_identifier # 0
                      /\ key \notin DOMAIN c.contact
         IN UnknownSendersRepeated(c, Tail(rows),
                IF fresh THEN Append(acc, [key |-> key, original |-> row.sender_identifier])
                ELSE acc)

\* sync_messages lines 114-133: the first pass over the batch; the result is
\* unknown_sender_details_to_create in insertion order
RECURSIVE UnknownSenders(_, _, _)
UnknownSenders(c, rows, acc) ==
    IF rows = <<>> THEN acc
    ELSE LET row == Head(rows)
             key == NormalizeSender(row.sender_identifier)
             fresh == /\ ~row.is_from_me
                      /\ row.sender_identifier # 0
                      /\ key \notin DOMAIN c.contact
                      /\ \A k \in DOMAIN acc : acc[k].key # key
         IN UnknownSenders(c, Tail(rows),
                IF fresh THEN Append(acc, [key |-> key, original |-> row.sender_identifier])
                ELSE acc)

\* sync_messages lines 137-195: one contact per unknown sender (inserted in
\* the order of their names), its id read back by name, the contact cache
\* and the contact_identifiers table updated
RECURSIVE InsertContacts(_, _)
InsertContacts(contacts, names) ==
    IF names = <<>> THEN contacts
    ELSE InsertContacts(
            Append(contacts, [name |-> Head(names), is_me |-> FALSE,
                              data_source |-> "live_sync_message_sender"]),
            Tail(names))

RetrievedContactId(d, name) ==
    LET hit == {i \in DOMAIN d.contacts :
                   /\ d.contacts[i].name = name
                   /\ d.contacts[i].data_source = "live_sync_message_sender"}
    IN IF hit = {} THEN 0 ELSE SetMax(hit)

RECURSIVE LinkContacts(_, _, _)
LinkContacts(d, c, unk) ==
    IF unk = <<>> THEN [db |-> d, cache |-> c]
    ELSE LET u == Head(unk)
             id == RetrievedContactId(d, u.original)
             row == [contact_id |-> id, identifier |-> u.original]
             present == \E k \in DOMAIN d.contact_identifiers :
                            d.contact_identifiers[k] = row
         IN IF id = 0 THEN LinkContacts(d, c, Tail(unk))
            ELSE LinkContacts(
                    IF present THEN d
                    ELSE [d EXCEPT !.contact_identifiers = Append(@, row)],
                    [c EXCEPT !.contact = MapPut(@, u.key, id)],
                    Tail(unk))

CreateUnknownContacts(d, c, rows) ==
    LET unk == UnknownSenders(c, rows, <<>>)
        names == SetToSeq({unk[k].original : k \in DOMAIN unk})
    IN LinkContacts([d EXCEPT !.contacts = InsertContacts(@, names)], c, unk)

\* Mutant of create_chat_if_missing: the row is inserted without looking
\* the identifier up in the store, and the cache is not updated.
create_chat_uncached(d, c, ident, is_group) ==
    [db |-> [d EXCEPT !.chats = Append(@, [chat_identifier |-> ident,
                                           is_group |-> is_group,
                                           total_messages |-> 0])],
     cache |-> c,
     chat_id |-> Len(d.chats) + 1]

\* create_chat_if_missing(cursor, chat_identifier, is_group)
create_chat_if_missing(d, c, ident, is_group) ==
    LET inDb == {i \in DOMAIN d.chats : d.chats[i].chat_identifier = ident}
    IN IF MapGet(c.chat, ident) # 0
       THEN [db |-> d, cache |-> c, chat_id |-> MapGet(c.chat, ident)]
       ELSE IF inDb # {}
       THEN [db |-> d, cache |-> [c EXCEPT !.chat = MapPut(@, ident, SetMin(inDb))],
             chat_id |-> SetMin(inDb)]
       ELSE [db |-> [d EXCEPT !.chats = Append(@, [chat_identifier |-> ident,
                                                   is_group |-> is_group,
                                                   total_messages |-> 0])],
             cache |-> [c EXCEPT !.chat = MapPut(@, ident, Len(d.chats) + 1)],
             chat_id |-> Len(d.chats) + 1]

\* sync_messages line 285: a row is a reaction when its type is neither 0
\* nor None
IsReactionLive(message_type) == message_type # 0 /\ message_type # NULL

\* sync_messages lines 216-225 and transform_message lines 72-73: the
\* participants of the row's chat as the participants cache knows them, the
\* row's sender handle when it knows none, made into a chat identifier
LiveParticipants(c, row) ==
    LET cached == IF row.chat \in DOMAIN c.participants THEN c.participants[row.chat]
                  ELSE {}
    IN IF cached # {} THEN cached
       ELSE IF row.sender_identifier # 0 THEN {row.sender_identifier} ELSE {}

LiveChatIdentifier(c, row) == generate_chat_identifier(LiveParticipants(c, row))

\* sync_messages lines 234-238: a chat is a group when the participants
\* string of the row lists more than one handle
LiveIsGroup(c, row) == Cardinality(LiveParticipants(c, row)) > 1

\* sync_messages lines 231-243: the chat id of an identifier, from the chat
\* cache or, for an identifier that is not empty, create_chat_if_missing
ResolveChat(d, c, ident, is_group) ==
    IF MapGet(c.chat, ident) = 0 /\ ident # {}
    THEN create_chat_if_missing(d, c, ident, is_group)
    ELSE [db |-> d, cache |-> c, chat_id |-> MapGet(c.chat, ident)]

\* sync_messages lines 245-309: the row is skipped without a chat or a
\* sender, and staged for its table when the cache does not know its guid;
\* made is what ResolveChat returned for the row
StageRow(st, made, row, user_id) ==
    LET chat_id == made.chat_id
        sender_id == IF row.is_from_me THEN user_id
                     ELSE MapGet(made.cache.contact, NormalizeSender(row.sender_identifier))
        st1 == [st EXCEPT !.db = made.db, !.cache = made.cache]
    IN IF chat_id = 0 \/ (~row.is_from_me /\ sender_id = 0)
       THEN [st1 EXCEPT !.skipped = @ \cup {row.message_id}]
       ELSE IF IsReactionLive(row.message_type)
       THEN IF row.guid \notin st1.cache.reaction
            THEN [st1 EXCEPT !.reactions_to_insert =
                     Append(@, [guid |-> row.guid, chat_id |-> chat_id,
                                sender_id |-> sender_id, timestamp |-> row.date,
                                reaction_type |-> row.message_type])]
            ELSE st1
       ELSE IF row.guid \notin DOMAIN st1.cache.message
            THEN [st1 EXCEPT !.messages_to_insert =
                     Append(@, [guid |-> row.guid, chat_id |-> chat_id,
                                sender_id |-> sender_id, ts |-> row.date,
                                message_type |-> row.message_type,
                                conversation_id |-> 0]),
                             !.chat_counts = MapPut(@, chat_id, MapGet(@, chat_id) + 1),
                             !.imported_count = @ + 1]
            ELSE st1

\* The body of "for row in new_rows" (sync_messages lines 213-309).
ProcessRow(st, row, user_id) ==
    StageRow(st, ResolveChat(st.db, st.cache, LiveChatIdentifier(st.cache, row),
                             LiveIsGroup(st.cache, row)),
             row, user_id)

RECURSIVE ProcessRows(_, _, _)
ProcessRows(st, rows, user_id) ==
    IF rows = <<>> THEN st
    ELSE ProcessRows(ProcessRow(st, Head(rows), user_id), Tail(rows), user_id)

\* A plain INSERT of the staged rows into a table with a UNIQUE guid column
\* raises IntegrityError when a guid is already in the table or is staged
\* twice.
UniqueViolation(table, staged) ==
    \/ \E i \in DOMAIN staged, j \in DOMAIN table : staged[i].guid = table[j].guid
    \/ \E i, j \in DOMAIN staged : i # j /\ staged[i].guid = staged[j].guid

\* PRAGMA foreign_keys = ON: an INSERT of staged rows raises IntegrityError
\* when a row's chat_id or sender_id is not the id of a row of chats or
\* contacts (ids that a cache kept from a transaction that was rolled back).
ForeignKeyViolation(d, staged) ==
    \E i \in DOMAIN staged :
        \/ staged[i].chat_id \notin DOMAIN d.chats
        \/ staged[i].sender_id \notin DOMAIN d.contacts

\* UPDATE chats SET total_messages = total_messages + ? WHERE id = ?
UpdateChatCounts(chats, chat_counts) ==
    [i \in DOMAIN chats |->
        [chats[i] EXCEPT !.total_messages = @ + MapGet(chat_counts, i)]]

\* Mutant of UpdateMessageCache: the cache is left as it was.
UpdateMessageCacheNone(c, d, staged) == c

\* sync_messages lines 328-334: the ids of the inserted rows are read back by
\* guid and put into MESSAGE_GUID_TO_ID_CACHE
UpdateMessageCache(c, d, staged) ==
    LET guids == {staged[k].guid : k \in DOMAIN staged}
    IN [c EXCEPT !.message =
           [g \in (DOMAIN @) \cup guids |->
               IF g \in guids
               THEN CHOOSE i \in DOMAIN d.messages : d.messages[i].guid = g
               ELSE @[g]]]

\* The places of sync_messages where the store can raise.
FailPoints == {"none", "insert_messages", "insert_reactions", "update_chat_counts", "commit"}

\* What a call of sync_messages leaves behind: the store, the caches, whether
\* it raised, and the pair it returned.
SyncResult(d, c, raised, imported_count, chat_counts, skipped) ==
    [db |-> d, cache |-> c, raised |-> raised, imported_count |-> imported_count,
     chat_counts |-> chat_counts, skipped |-> skipped]

\* Mutant of session_scope: the writes of a body that raised are kept.
session_scope_keeping(d0, body) == body

\* session_scope: the body's writes are committed when it exits normally;
\* an exception rolls the transaction back (the store is the one the call
\* started with) and is raised again.
session_scope(d0, body) == IF body.raised THEN [body EXCEPT !.db = d0] ELSE body

\* An exception inside the body of sync_messages, with the store as the open
\* transaction has it at that point; what the call wrote to the module-level
\* caches stays.
Raise(d, c) == SyncResult(d, c, TRUE, 0, EmptyMap, {})

\* sync_messages lines 100-104: the lists and counters of the loop, empty;
\* s2 is what the creation of the unknown senders' contacts left
StagingStart(s2) ==
    [db |-> s2.db, cache |-> s2.cache,
     messages_to_insert |-> <<>>, reactions_to_insert |-> <<>>,
     chat_counts |-> EmptyMap, imported_count |-> 0, skipped |-> {}]

\* sync_messages lines 318-375: the staged rows are inserted, the caches
\* and the chat counts updated, the session committed; s3 is what the loop
\* over the rows left, failAt the statement at which the store fails, if it
\* is reached
InsertStaged(d0, s3, failAt) ==
    LET hasM == s3.messages_to_insert # <<>>
        hasR == s3.reactions_to_insert # <<>>
        failM == hasM /\ (failAt = "insert_messages"
                          \/ UniqueViolation(s3.db.messages, s3.messages_to_insert)
                          \/ ForeignKeyViolation(s3.db, s3.messages_to_insert))
        d4 == [s3.db EXCEPT !.messages = @ \o s3.messages_to_insert]
        c4 == IF hasM THEN UpdateMessageCache(s3.cache, d4, s3.messages_to_insert)
              ELSE s3.cache
        failR == hasR /\ (failAt = "insert_reactions"
                          \/ UniqueViolation(d4.reactions, s3.reactions_to_insert)
                          \/ ForeignKeyViolation(d4, s3.reactions_to_insert))
        d5 == [d4 EXCEPT !.reactions = @ \o s3.reactions_to_insert]
        c5 == [c4 EXCEPT !.reaction = @ \cup {s3.reactions_to_insert[k].guid :
                                                 k \in DOMAIN s3.reactions_to_insert}]
        failC == s3.chat_counts # EmptyMap /\ failAt = "update_chat_counts"
        d6 == [d5 EXCEPT !.chats = UpdateChatCounts(@, s3.chat_counts)]
    IN session_scope(d0,
          IF failM THEN Raise(s3.db, s3.cache)
          ELSE IF failR THEN Raise(d4, c4)
          ELSE IF failC THEN Raise(d5, c5)
          ELSE IF failAt = "commit" THEN Raise(d6, c5)
          ELSE SyncResult(d6, c5, FALSE, s3.imported_count, s3.chat_counts, s3.skipped))

\* sync_messages(new_rows)
sync_messages(src, d0, c0, new_rows, failAt) ==
    IF new_rows = <<>> THEN SyncResult(d0, c0, FALSE, 0, EmptyMap, {})
    ELSE
    LET c1 == get_chat_participants_map(src,
                get_contact_map(d0,
                  get_reaction_guids(d0,
                    get_message_guid_to_id_map(d0,
                      get_chat_map(d0, c0, FALSE), FALSE), FALSE), FALSE), FALSE)
        d1 == EnsureUser(d0)
    IN InsertStaged(d0,
           ProcessRows(StagingStart(CreateUnknownContacts(d1, c1, new_rows)),
                       new_rows, UserContactId(d1)),
           failAt)

\* ------------------------------------------------- fresh split & compare
\* _replace_or_reuse_intervals, step 2: conv_id -> the ids of its messages,
\* read once before the blocks are handled
ConvMsgMap(d, chat) ==
    [c \in {x.id : x \in ConvsOfChat(d, chat)} |->
        {i \in MsgIds(d) : d.messages[i].conversation_id = c}]

\* Mutant of ReusedConvId: no conversation is ever found for reuse.
ReusedConvIdNone(conv_msg_map, ids) == 0

\* _replace_or_reuse_intervals lines 360-365: the existing conversation with
\* exactly the block's message ids (0: none)
ReusedConvId(conv_msg_map, ids) ==
    IF \E c \in DOMAIN conv_msg_map : conv_msg_map[c] = ids
    THEN SetMin({c \in DOMAIN conv_msg_map : conv_msg_map[c] = ids})
    ELSE 0

\* Overlap of an old conversation with a block (lines 373-389)
Overlaps(c, start, end) == c.start_time <= end /\ c.end_time >= start

\* A variant of the loop body that deletes the overlapping conversations
\* without first detaching their messages.
ReplaceStepNoDetach(d, chat, conv_msg_map, blk, gap) ==
    LET ids == SeqToSet(blk.message_ids)
        old == {c \in ConvsOfChat(d, chat) : Overlaps(c, blk.start_time, blk.end_time)}
        new_cid == d.conv_seq + 1
        row == [id |-> new_cid, chat_id |-> chat,
                initiator_id |-> d.messages[SetMin(ids)].sender_id,
                start_time |-> blk.start_time, end_time |-> blk.end_time,
                message_count |-> Cardinality(ids), gap_threshold |-> gap]
    IN IF ReusedConvId(conv_msg_map, ids) # 0 THEN d
       ELSE [d EXCEPT !.conversations = (@ \ old) \cup {row},
                      !.conv_seq = new_cid,
                      !.messages = Attach(@, ids, new_cid)]

\* The body of "for block in new_blocks" (lines 355-421)
ReplaceStep(d, chat, conv_msg_map, blk, gap) ==
    LET ids == SeqToSet(blk.message_ids)
        old == {c \in ConvsOfChat(d, chat) : Overlaps(c, blk.start_time, blk.end_time)}
        oldIds == {c.id : c \in old}
        detached == [i \in DOMAIN d.messages |->
                        IF d.messages[i].conversation_id \in oldIds
                        THEN [d.messages[i] EXCEPT !.conversation_id = 0]
                        ELSE d.messages[i]]
        new_cid == d.conv_seq + 1
        row == [id |-> new_cid, chat_id |-> chat,
                initiator_id |-> d.messages[SetMin(ids)].sender_id,
                start_time |-> blk.start_time, end_time |-> blk.end_time,
                message_count |-> Cardinality(ids), gap_threshold |-> gap]
    IN IF ReusedConvId(conv_msg_map, ids) # 0 THEN d
       ELSE [d EXCEPT !.conversations = (@ \ old) \cup {row},
                      !.conv_seq = new_cid,
                      !.messages = Attach(detached, ids, new_cid)]

RECURSIVE ReplaceLoop(_, _, _, _, _)
ReplaceLoop(d, chat, conv_msg_map, blocks, gap) ==
    IF blocks = <<>> THEN d
    ELSE ReplaceLoop(ReplaceStep(d, chat, conv_msg_map, Head(blocks), gap),
                     chat, conv_msg_map, Tail(blocks), gap)

\* _replace_or_reuse_intervals(chat_id, new_blocks, gap_threshold)
ReplaceOrReuseIntervals(d, chat, new_blocks, gap) ==
    ReplaceLoop(d, chat, ConvMsgMap(d, chat), new_blocks, gap)

\* The fresh segmentation of one chat: all its messages by timestamp, split
FreshBlocks(d, chat, gap) ==
    SplitIntoConversations(d,
        OrderByTimestamp(d, {i \in MsgIds(d) : d.messages[i].chat_id = chat}), gap)

RECURSIVE FreshLoop(_, _, _, _)
FreshLoop(d0, d, chats, gap) ==
    IF chats = <<>> THEN d
    ELSE FreshLoop(d0,
                   ReplaceOrReuseIntervals(d, Head(chats), FreshBlocks(d0, Head(chats), gap), gap),
                   Tail(chats), gap)

\* etl_conversations_fresh_split_compare(gap_threshold): the messages are
\* read once (d0), then the chats are handled in chat id order
etl_conversations_fresh_split_compare(d, gap) ==
    FreshLoop(d, d, SetToSeq({d.messages[i].chat_id : i \in MsgIds(d)}), gap)

\* -------------------------------------------------------- the import path
\* ensure_user_contact, which etl_live_contacts reaches through etl_contacts
\* for the address book of the machine: the user's contact is created when
\* missing (the contacts of the address book are not part of the model)
ensure_user_contact(d) ==
    IF UserContactId(d) # 0 THEN d
    ELSE [d EXCEPT !.contacts =
             Append(@, [name |-> 0, is_me |-> TRUE, data_source |-> "none"])]

\* update_user_contact_from_account_login(source_db), for a chat.db whose
\* chats carry no account_login: the user's contact is created when missing,
\* and no identifier is written
update_user_contact_from_account_login(d) ==
    IF UserContactId(d) # 0 THEN d
    ELSE [d EXCEPT !.contacts =
             Append(@, [name |-> 0, is_me |-> TRUE, data_source |-> "none"])]

\* SELECT chat_identifier, id FROM chats, as a map
ExistingChatMap(d) ==
    [x \in {d.chats[i].chat_identifier : i \in DOMAIN d.chats} |->
        SetMax({i \in DOMAIN d.chats : d.chats[i].chat_identifier = x})]

\* load_chats: a chat of chat.db whose identifier the store does not have is
\* inserted, the others are updated (no column of the model changes)
RECURSIVE load_chats(_, _)
load_chats(d, chats) ==
    IF chats = <<>> THEN d
    ELSE load_chats(
            IF MapGet(ExistingChatMap(d), Head(chats).chat_identifier) # 0 THEN d
            ELSE [d EXCEPT !.chats = Append(@, [chat_identifier |-> Head(chats).chat_identifier,
                                                is_group |-> Head(chats).is_group,
                                                total_messages |-> 0])],
            Tail(chats))

\* etl_chats(source_db): the chats of chat.db in ROWID order
etl_chats(src, d) ==
    LET chats == SetToSeq(SourceChats(src))
    IN load_chats(d, [k \in DOMAIN chats |->
                        [chat_identifier |->
                             generate_chat_identifier(ChatParticipants(chats[k])),
                         is_group |-> Cardinality(ChatParticipants(chats[k])) > 1]])

\* transform_message(message), for a row of extract_messages whose
\* chat_participants lists the participants of every chat of the message
transform_message(src, row) ==
    [chat_identifier |->
        generate_chat_identifier(
            UNION {ChatParticipants(src[k].chat) :
                     k \in {j \in DOMAIN src : src[j].message_id = row.message_id}}),
     sender_identifier |-> NormalizeSender(row.sender_identifier),
     timestamp |-> row.date,
     is_from_me |-> row.is_from_me,
     message_type |-> row.message_type,
     guid |-> row.guid]

\* ORDER BY message.date DESC; SQL leaves the order of rows of equal date
\* open: tieHigh puts the higher ROWID first
RECURSIVE OrderByDateDesc(_, _, _)
OrderByDateDesc(byId, S, tieHigh) ==
    IF S = {} THEN <<>>
    ELSE LET top == {m \in S : \A o \in S : byId[o].date <= byId[m].date}
             m == IF tieHigh THEN SetMax(top) ELSE SetMin(top)
         IN <<m>> \o OrderByDateDesc(byId, S \ {m}, tieHigh)

\* extract_messages(source_db, None) and the transform of etl_messages: one
\* row per message (GROUP BY message.ROWID)
extract_messages(src, tieHigh) ==
    LET mids == {src[k].message_id : k \in DOMAIN src}
        byId == [m \in mids |-> src[SetMin({k \in DOMAIN src : src[k].message_id = m})]]
        order == OrderByDateDesc(byId, mids, tieHigh)
    IN [k \in DOMAIN order |-> transform_message(src, byId[order[k]])]

\* load_messages line 160: a row is a reaction when its type is not 0
IsReactionBackup(message_type) == message_type # 0

\* create_contact_for_unknown_sender(cursor, identifier)
create_contact_for_unknown_sender(d, identifier) ==
    [d EXCEPT !.contacts = Append(@, [name |-> identifier, is_me |-> FALSE,
                                      data_source |-> "none"]),
              !.contact_identifiers = Append(@, [contact_id |-> Len(d.contacts) + 1,
                                                 identifier |-> identifier])]

\* The body of "for msg in chunk" (load_messages lines 141-190)
LoadMessagesStep(st, msg) ==
    LET chat_id == MapGet(st.chat_map, msg.chat_identifier)
        known == MapGet(st.contact_map, msg.sender_identifier)
        st1 == IF msg.is_from_me \/ known # 0 THEN st
               ELSE [st EXCEPT !.db = create_contact_for_unknown_sender(@, msg.sender_identifier),
                               !.contact_map = MapPut(@, msg.sender_identifier,
                                                      Len(st.db.contacts) + 1)]
        sender_id == IF msg.is_from_me THEN st.user_id
                     ELSE MapGet(st1.contact_map, msg.sender_identifier)
        reaction == [guid |-> msg.guid, chat_id |-> chat_id, sender_id |-> sender_id,
                     timestamp |-> msg.timestamp, reaction_type |-> msg.message_type]
        message == [guid |-> msg.guid, chat_id |-> chat_id, sender_id |-> sender_id,
                    ts |-> msg.timestamp, message_type |-> msg.message_type,
                    conversation_id |-> 0]
    IN IF chat_id = 0 THEN [st EXCEPT !.skipped_count = @ + 1]
       ELSE IF IsReactionBackup(msg.message_type)
       THEN IF msg.guid \in st.existing_reaction_guids
            THEN [st1 EXCEPT !.reactions_to_update = Append(@, reaction)]
            ELSE [st1 EXCEPT !.reactions_to_insert = Append(@, reaction)]
       ELSE IF msg.guid \in st.existing_message_guids
            THEN [st1 EXCEPT !.messages_to_update = Append(@, message)]
            ELSE [st1 EXCEPT !.messages_to_insert = Append(@, message),
                             !.chat_counts = MapPut(@, chat_id, MapGet(@, chat_id) + 1),
                             !.imported_count = @ + 1]

RECURSIVE LoadMessagesLoop(_, _)
LoadMessagesLoop(st, msgs) ==
    IF msgs = <<>> THEN st
    ELSE LoadMessagesLoop(LoadMessagesStep(st, Head(msgs)), Tail(msgs))

\* UPDATE messages SET chat_id, sender_id, timestamp, message_type
\* WHERE guid = ?
UpdateMessages(table, rows) ==
    [i \in DOMAIN table |->
        IF \E k \in DOMAIN rows : rows[k].guid = table[i].guid
        THEN LET r == rows[CHOOSE k \in DOMAIN rows : rows[k].guid = table[i].guid]
             IN [table[i] EXCEPT !.chat_id = r.chat_id, !.sender_id = r.sender_id,
                                 !.ts = r.ts, !.message_type = r.message_type]
        ELSE table[i]]

\* UPDATE reactions SET reaction_type, sender_id, timestamp, chat_id
\* WHERE guid = ?
UpdateReactions(table, rows) ==
    [i \in DOMAIN table |->
        IF \E k \in DOMAIN rows : rows[k].guid = table[i].guid
        THEN rows[CHOOSE k \in DOMAIN rows : rows[k].guid = table[i].guid]
        ELSE table[i]]

\* load_messages(messages)
load_messages(d, msgs) ==
    LET st == LoadMessagesLoop(
                 [db |-> d,
                  existing_message_guids |-> {d.messages[i].guid : i \in DOMAIN d.messages},
                  existing_reaction_guids |-> {d.reactions[i].guid : i \in DOMAIN d.reactions},
                  chat_map |-> ExistingChatMap(d),
                  contact_map |-> ContactMapOf(d.contact_identifiers, EmptyMap),
                  user_id |-> UserContactId(d),
                  messages_to_insert |-> <<>>, messages_to_update |-> <<>>,
                  reactions_to_insert |-> <<>>, reactions_to_update |-> <<>>,
                  chat_counts |-> EmptyMap, imported_count |-> 0, skipped_count |-> 0],
                 msgs)
    IN [db |-> [st.db EXCEPT
                  !.messages = UpdateMessages(@ \o st.messages_to_insert, st.messages_to_update),
                  !.reactions = UpdateReactions(@ \o st.reactions_to_insert,
                                                st.reactions_to_update),
                  !.chats = UpdateChatCounts(@, st.chat_counts)],
        imported_count |-> st.imported_count,
        skipped_count |-> st.skipped_count]

\* etl_attachments: every attachment of chat.db whose message is stored is
\* inserted; one whose guid is stored already is skipped (IntegrityError)
etl_attachments(att, d) ==
    LET message_map == [g \in {d.messages[i].guid : i \in MsgIds(d)} |->
                           CHOOSE i \in MsgIds(d) : d.messages[i].guid = g]
        stored == {a.guid : a \in d.attachments}
        rows == {k \in DOMAIN att :
                    /\ MapGet(message_map, att[k].message_guid) # 0
                    /\ att[k].guid \notin stored}
    IN [d EXCEPT !.attachments =
           @ \cup {[guid |-> att[k].guid,
                    message_id |-> MapGet(message_map, att[k].message_guid)] : k \in rows}]

\* import_live_data(since_date = None): contacts, chats, messages,
\* attachments and conversations of the whole of chat.db
import_live_data(src, att, d, tieHigh) ==
    LET d1 == ensure_user_contact(d)
        d2 == etl_chats(src, d1)
        d3 == update_user_contact_from_account_login(
                  load_messages(d2, extract_messages(src, tieHigh)).db)
        d4 == etl_attachments(att, d3)
    IN EtlConversations(d4, 0, NULL, DEFAULT_GAP_THRESHOLD, tieHigh).db

\* ------------------------------------------------------------ the watcher
\* Mutant of fetch_new_messages: the first row above the watermark is left
\* out (ROWID > last_rowid + 1).
fetch_new_messages_above_next(src, last_rowid) ==
    LET rows == SelectSeq(src, LAMBDA r : r.message_id > last_rowid + 1)
    IN [rows |-> rows,
        max_rowid |-> IF rows = <<>> THEN last_rowid
                      ELSE SetMax({rows[k].message_id : k \in DOMAIN rows})]

\* fetch_new_messages(last_rowid): the joined rows above the row-id
\* watermark, in ROWID order, and the highest ROWID among them
fetch_new_messages(src, last_rowid) ==
    LET rows == SelectSeq(src, LAMBDA r : r.message_id > last_rowid)
    IN [rows |-> rows,
        max_rowid |-> IF rows = <<>> THEN last_rowid
                      ELSE SetMax({rows[k].message_id : k \in DOMAIN rows})]

\* fetch_new_attachments(last_rowid): the joined attachment rows above the
\* row-id watermark, in ROWID order, and the highest ROWID among them
fetch_new_attachments(att, last_rowid) ==
    LET rows == SelectSeq(att, LAMBDA a : a.ROWID > last_rowid)
    IN [rows |-> rows,
        max_rowid |-> IF rows = <<>> THEN last_rowid
                      ELSE SetMax({rows[k].ROWID : k \in DOMAIN rows})]

\* The rows of sync_attachments that are neither cached nor without a
\* cached message, as they are inserted
StagedAttachments(c1, new_rows) ==
    LET keep == SelectSeq(new_rows,
                    LAMBDA r : /\ r.guid \notin c1.attachment
                               /\ MapGet(c1.message, r.message_guid) # 0)
    IN [k \in DOMAIN keep |->
           [guid |-> keep[k].guid,
            message_id |-> MapGet(c1.message, keep[k].message_guid)]]

\* sync_attachments(new_rows): an insert that breaks the UNIQUE constraint
\* on guid or the foreign key on message_id raises and is rolled back
InsertAttachments(d, c1, staged) ==
    LET bad == {k \in DOMAIN staged :
                   \/ staged[k].message_id \notin DOMAIN d.messages
                   \/ staged[k].guid \in {a.guid : a \in d.attachments}
                   \/ \E j \in 1..(k - 1) : staged[j].guid = staged[k].guid}
        done == IF bad = {} THEN staged ELSE SubSeq(staged, 1, SetMin(bad) - 1)
        written == [d EXCEPT !.attachments = @ \cup SeqToSet(done)]
    IN session_scope(d,
          IF bad # {}
          THEN [db |-> written, cache |-> c1, raised |-> TRUE, imported_count |-> 0]
          ELSE [db |-> written,
                cache |-> [c1 EXCEPT !.attachment =
                              @ \cup {staged[k].guid : k \in DOMAIN staged}],
                raised |-> FALSE, imported_count |-> Len(staged)])

sync_attachments(d, c0, new_rows) ==
    IF new_rows = <<>>
    THEN [db |-> d, cache |-> c0, raised |-> FALSE, imported_count |-> 0]
    ELSE InsertAttachments(d,
             get_attachment_guids(d, get_message_guid_to_id_map(d, c0, FALSE), FALSE),
             StagedAttachments(
                 get_attachment_guids(d, get_message_guid_to_id_map(d, c0, FALSE), FALSE),
                 new_rows))

\* wal.py lines 140-145: etl_conversations for every affected chat
RECURSIVE EtlAffected(_, _, _, _)
EtlAffected(d, chats, since, tieHigh) ==
    IF chats = <<>> THEN d
    ELSE EtlAffected(EtlConversations(d, Head(chats), since, DEFAULT_GAP_THRESHOLD, tieHigh).db,
                     Tail(chats), since, tieHigh)

\* Mutant of NewWatermarkCandidate: the timestamp of the last row of the
\* batch.
NewWatermarkCandidateLast(rows) == rows[Len(rows)].date

\* wal.py lines 148-152: the candidate for the timestamp watermark
NewWatermarkCandidate(rows) == SetMax({rows[k].date : k \in DOMAIN rows})

\* The statements of a cycle at which an exception can end it: those of
\* sync_messages and the three writes that follow it.
CyclePoints ==
    FailPoints \cup {"set_message_rowid_watermark", "etl_conversations", "set_watermark"}

\* The store as local_session_manager creates it: empty tables, no key in
\* live_sync_state.
EmptyDb ==
    [messages |-> <<>>, reactions |-> <<>>, chats |-> <<>>, contacts |-> <<>>,
     contact_identifiers |-> <<>>, conversations |-> {}, conv_seq |-> 0,
     attachments |-> {},
     state |-> [apple_epoch_ns |-> NULL, last_message_rowid |-> NULL,
                last_attachment_rowid |-> NULL]]

\* initialize_watermark_if_missing: the newest stored timestamp, or the
\* clock less one day (the origin of the model's time scale) when the store
\* has no message
initialize_watermark_if_missing(d) ==
    IF d.state.apple_epoch_ns # NULL THEN d
    ELSE [d EXCEPT !.state.apple_epoch_ns =
             IF d.messages # <<>>
             THEN SetMax({d.messages[i].ts : i \in DOMAIN d.messages})
             ELSE 0]

\* get_message_rowid_watermark, get_attachment_rowid_watermark: 0 when the
\* key is absent
get_message_rowid_watermark(d) ==
    IF d.state.last_message_rowid = NULL THEN 0 ELSE d.state.last_message_rowid

get_attachment_rowid_watermark(d) ==
    IF d.state.last_attachment_rowid = NULL THEN 0 ELSE d.state.last_attachment_rowid

\* SELECT MAX(ROWID) FROM message / FROM attachment, 0 for an empty table
MaxMessageRowid(src) ==
    IF src = <<>> THEN 0 ELSE SetMax({src[k].message_id : k \in DOMAIN src})

MaxAttachmentRowid(att) ==
    IF att = <<>> THEN 0 ELSE SetMax({att[k].ROWID : k \in DOMAIN att})

\* initialize_rowid_watermarks_if_missing: when both row-id watermarks read
\* 0, each becomes MAX(ROWID) of its table of chat.db; otherwise neither is
\* written
initialize_rowid_watermarks_if_missing(src, att, d) ==
    IF get_message_rowid_watermark(d) = 0 /\ get_attachment_rowid_watermark(d) = 0
    THEN [d EXCEPT !.state.last_message_rowid = MaxMessageRowid(src),
                   !.state.last_attachment_rowid = MaxAttachmentRowid(att)]
    ELSE d

\* initialize_rowid_watermarks_if_missing ended by an exception after
\* set_message_rowid_watermark (state.py line 126) and before
\* set_attachment_rowid_watermark (line 136): the read of chat.db of line 132
\* has failed
initialize_message_rowid_only(src, d) ==
    IF get_message_rowid_watermark(d) = 0 /\ get_attachment_rowid_watermark(d) = 0
    THEN [d EXCEPT !.state.last_message_rowid = MaxMessageRowid(src)]
    ELSE d

\* run_live_sync.py: the import, the watermarks, the caches loaded anew, and
\* the first lines of watch(), which read the watermarks
\* run_live_sync.py lines 26-50 and watch() lines 98-99: the caches are reset
\* and loaded from the store d2, the watcher reads its watermarks
start_watch(src, d2) ==
    [db |-> d2,
     cache |-> get_chat_participants_map(src,
                 get_attachment_guids(d2,
                   get_reaction_guids(d2,
                     get_chat_map(d2,
                       get_message_guid_to_id_map(d2,
                         get_contact_map(d2, reset_all_caches, TRUE), TRUE), TRUE), TRUE),
                   TRUE), TRUE),
     watcher |-> [running |-> TRUE,
                  connection |-> TRUE,
                  current_watermark_ns |-> d2.state.apple_epoch_ns,
                  current_message_rowid |-> get_message_rowid_watermark(d2),
                  current_attachment_rowid |-> get_attachment_rowid_watermark(d2)]]

main(src, att, d, tieHigh) ==
    start_watch(src,
        initialize_rowid_watermarks_if_missing(src, att,
            initialize_watermark_if_missing(import_live_data(src, att, d, tieHigh))))

\* hist: the last operation, what it was given and what it returned, the
\* store failure it was run with when it raised, the
\* rows that sync_messages has reported as skipped so far, the number of
\* starts of the process after the first, whether a cycle has raised, and
\* the parity of the number of sync_messages calls made by themselves
Note(op, h) ==
    [op |-> op, raised |-> FALSE, imported_count |-> 0, updated_count |-> 0,
     chat_counts |-> EmptyMap,
     batch |-> <<>>, attachments |-> <<>>, fail |-> "none", gap |-> 0, matched |-> {}, blocks |-> <<>>,
     skipped |-> h.skipped,
     restarts |-> h.restarts, failed |-> h.failed, turn |-> h.turn]

\* The process has been started on an empty chat.db and an empty store.
Init ==
    /\ source = <<>>
    /\ attachment = <<>>
    /\ loop = LoopIdle
    /\ db = main(<<>>, <<>>, EmptyDb, FALSE).db
    /\ cache = main(<<>>, <<>>, EmptyDb, FALSE).cache
    /\ watcher = main(<<>>, <<>>, EmptyDb, FALSE).watcher
    /\ hist = Note("init", [skipped |-> {}, restarts |-> 0, failed |-> FALSE, turn |-> 0])

\* The source's owner writes a message row and its chat join.
NextRowid == IF source = <<>> THEN 1 ELSE source[Len(source)].message_id + 1

WriteRow(cap, chat, date, type, from_me, sender) ==
    /\ NextRowid <= cap
    /\ source' = Append(source,
                    [message_id |-> NextRowid, guid |-> NextRowid,
                     chat |-> chat, date |-> date, message_type |-> type,
                     is_from_me |-> from_me, sender_identifier |-> sender])
    /\ hist' = Note("write", hist)
    /\ UNCHANGED <<attachment, db, cache, watcher, loop>>

\* The source's owner joins the newest message to a second chat.
WriteJoin(cap, chat) ==
    /\ source # <<>>
    /\ Len(source) < cap
    /\ \A k \in DOMAIN source :
          source[k].message_id = source[Len(source)].message_id => source[k].chat # chat
    /\ source' = Append(source, [source[Len(source)] EXCEPT !.chat = chat])
    /\ hist' = Note("write", hist)
    /\ UNCHANGED <<attachment, db, cache, watcher, loop>>

\* wal.py lines 132-206: what follows sync_messages in a cycle; f is what
\* fetch_new_messages returned and r what sync_messages left
AttachmentSynced(d, w, fa, ra) ==
    IF ra.raised
    THEN [db |-> d, cache |-> ra.cache, watcher |-> [w EXCEPT !.running = FALSE],
          raised |-> TRUE, attachments |-> fa.rows]
    ELSE [db |-> [ra.db EXCEPT !.state.last_attachment_rowid = fa.max_rowid],
          cache |-> ra.cache,
          watcher |-> [w EXCEPT !.current_attachment_rowid = fa.max_rowid],
          raised |-> FALSE, attachments |-> fa.rows]

\* wal.py lines 198-204: the attachments fetched at the head of the cycle are
\* synchronised and their row-id watermark is moved
AttachmentPart(d, c, w, fa) ==
    IF fa.rows = <<>>
    THEN [db |-> d, cache |-> c, watcher |-> w, raised |-> FALSE, attachments |-> <<>>]
    ELSE AttachmentSynced(d, w, fa, sync_attachments(d, c, fa.rows))

\* The end of a cycle: at the statement that raised (cut 0 to 3), or after
\* the attachments (cut 4)
CycleEnd(f, r, failAt, cut, dbCut, w1, done) ==
    /\ db' = IF cut = 4 THEN done.db ELSE dbCut
    /\ cache' = IF cut = 4 THEN done.cache ELSE r.cache
    /\ watcher' = CASE cut = 0 -> [watcher EXCEPT !.running = FALSE]
                    [] cut = 4 -> done.watcher
                    [] OTHER -> [w1 EXCEPT !.running = FALSE]
    /\ hist' = [Note("cycle", hist) EXCEPT
                   !.raised = (cut # 4) \/ done.raised,
                   !.imported_count = r.imported_count,
                   !.chat_counts = r.chat_counts,
                   !.batch = f.rows,
                   !.attachments = IF cut = 4 THEN done.attachments ELSE <<>>,
                   !.fail = IF cut # 4 THEN failAt
                            ELSE IF done.raised THEN "sync_attachments" ELSE "none",
                   !.skipped = @ \cup r.skipped,
                   !.failed = @ \/ cut # 4 \/ done.raised]

AfterSync(f, r, failAt, tieHigh) ==
    LET prev == watcher.current_watermark_ns
        d1 == [r.db EXCEPT !.state.last_message_rowid = f.max_rowid]
        affected == SetToSeq(DOMAIN r.chat_counts)
        d2 == EtlAffected(d1, affected, prev, tieHigh)
        cand == NewWatermarkCandidate(f.rows)
        d3 == IF r.imported_count > 0 THEN [d2 EXCEPT !.state.apple_epoch_ns = cand] ELSE d2
        w1 == [watcher EXCEPT !.current_message_rowid = f.max_rowid]
        w3 == IF r.imported_count > 0 THEN [w1 EXCEPT !.current_watermark_ns = cand] ELSE w1
        cut == IF r.raised THEN 0
               ELSE IF failAt = "set_message_rowid_watermark" THEN 1
               ELSE IF failAt = "etl_conversations" /\ affected # <<>> THEN 2
               ELSE IF failAt = "set_watermark" /\ r.imported_count > 0 THEN 3
               ELSE 4
    IN CycleEnd(f, r, failAt, cut,
                CASE cut = 2 -> d1 [] cut = 3 -> d2 [] OTHER -> r.db,
                w1,
                AttachmentPart(d3, r.cache, w3,
                    fetch_new_attachments(attachment, watcher.current_attachment_rowid)))

\* One pass of the loop body of watch() that found message rows
\* (wal.py lines 119-221).  An exception ends the process: the handlers of
\* lines 221, 224 and 240 call print with exc_info, which raises TypeError.
WatchPass(failAt, tieHigh) ==
    /\ watcher.running
    /\ fetch_new_messages(source, watcher.current_message_rowid).rows # <<>>
    /\ AfterSync(fetch_new_messages(source, watcher.current_message_rowid),
                 sync_messages(source, db, cache,
                     fetch_new_messages(source, watcher.current_message_rowid).rows,
                     IF failAt \in FailPoints THEN failAt ELSE "none"),
                 failAt, tieHigh)
    /\ UNCHANGED <<source, attachment>>

\* The pass, whenever the Consumer makes it
WatchCycle(failAt, tieHigh) == WatchPass(failAt, tieHigh) /\ UNCHANGED loop

\* One pass of the loop body of watch() that found attachment rows and no
\* message row (wal.py lines 119-127 and 198-204)
AttachmentEnd(done) ==
    /\ db' = done.db
    /\ cache' = done.cache
    /\ watcher' = done.watcher
    /\ hist' = [Note("cycle", hist) EXCEPT
                   !.raised = done.raised,
                   !.attachments = done.attachments,
                   !.fail = IF done.raised THEN "sync_attachments" ELSE "none",
                   !.failed = @ \/ done.raised]
    /\ UNCHANGED <<source, attachment, loop>>

AttachmentCycle ==
    /\ watcher.running
    /\ fetch_new_messages(source, watcher.current_message_rowid).rows = <<>>
    /\ fetch_new_attachments(attachment, watcher.current_attachment_rowid).rows # <<>>
    /\ AttachmentEnd(AttachmentPart(db, cache, watcher,
           fetch_new_attachments(attachment, watcher.current_attachment_rowid)))

\* A pass of the loop body in which the read of chat.db by
\* fetch_new_messages or by fetch_new_attachments raises sqlite3.Error
\* (extractors.py lines 147-157 and 223-233): the handler's print is given
\* exc_info and raises TypeError before the connection is closed, and the
\* handlers of watch() and start_watcher raise it again.
ReadFails(which) ==
    /\ watcher.running
    /\ \/ fetch_new_messages(source, watcher.current_message_rowid).rows # <<>>
       \/ fetch_new_attachments(attachment, watcher.current_attachment_rowid).rows # <<>>
    /\ watcher' = [watcher EXCEPT !.running = FALSE]
    /\ hist' = [Note("cycle", hist) EXCEPT
                   !.raised = TRUE, !.fail = which, !.failed = TRUE]
    /\ UNCHANGED <<source, attachment, db, cache, loop>>

\* The process is started and ends in initialize_rowid_watermarks_if_missing
\* between its two writes (run_live_sync.py lines 16-23).
StartFails(tieHigh) ==
    /\ hist.restarts < MaxRestarts
    /\ db' = initialize_message_rowid_only(source,
                initialize_watermark_if_missing(
                    import_live_data(source, attachment, db, tieHigh)))
    /\ cache' = reset_all_caches
    /\ watcher' = [watcher EXCEPT !.running = FALSE]
    /\ hist' = [Note("start", hist) EXCEPT
                   !.raised = TRUE, !.fail = "initialize_rowid_watermarks_if_missing",
                   !.restarts = @ + 1]
    /\ UNCHANGED <<source, attachment, loop>>

\* The source's owner adds an attachment to a message of chat.db.
WriteAttachment(cap, m) ==
    /\ Len(attachment) < cap
    /\ m \in DOMAIN source
    /\ attachment' = Append(attachment,
                        [ROWID |-> Len(attachment) + 1,
                         guid |-> Len(attachment) + 1,
                         message_guid |-> source[m].guid])
    /\ hist' = Note("write", hist)
    /\ UNCHANGED <<source, db, cache, watcher, loop>>

\* The process is stopped, if it still runs, and started again
\* (run_live_sync.py).
Restart(tieHigh) ==
    /\ hist.restarts < MaxRestarts
    /\ db' = main(source, attachment, db, tieHigh).db
    /\ cache' = main(source, attachment, db, tieHigh).cache
    /\ watcher' = main(source, attachment, db, tieHigh).watcher
    /\ hist' = [Note("restart", hist) EXCEPT !.restarts = @ + 1]
    /\ UNCHANGED <<source, attachment, loop>>

\* sync_messages called by itself on the rows above a row id
SyncCall(last_rowid, failAt) ==
    LET f == fetch_new_messages(source, last_rowid)
        r == sync_messages(source, db, cache, f.rows, failAt)
    IN /\ f.rows # <<>>
       /\ db' = r.db
       /\ cache' = r.cache
       /\ hist' = [Note("sync", hist) EXCEPT
                      !.raised = r.raised,
                      !.imported_count = r.imported_count,
                      !.chat_counts = r.chat_counts,
                      !.batch = f.rows,
                      !.fail = IF r.raised THEN failAt ELSE "none",
                      !.skipped = @ \cup r.skipped,
                      !.turn = 1 - @]
       /\ UNCHANGED <<source, attachment, watcher, loop>>

\* A run of the backup path's conversation step.
FreshGaps == {0, DEFAULT_GAP_THRESHOLD}

\* The message ids attached to conversation c
AttachedTo(d, c) == {i \in MsgIds(d) : d.messages[i].conversation_id = c}

MessagesOfChat(d, chat) == {i \in MsgIds(d) : d.messages[i].chat_id = chat}

ChatsWithMessages(d) == {d.messages[i].chat_id : i \in MsgIds(d)}

\* The fresh segments of a chat, as sets of message ids
FreshSegments(d, chat, gap) ==
    LET blocks == FreshBlocks(d, chat, gap)
    IN {SeqToSet(blocks[k].message_ids) : k \in DOMAIN blocks}

\* The fresh segments of a chat that an existing conversation of the chat
\* holds exactly
MatchingSegments(d, chat, gap) ==
    {seg \in FreshSegments(d, chat, gap) :
        \E c \in ConvsOfChat(d, chat) : AttachedTo(d, c.id) = seg}

FreshSplit(gap) ==
    /\ db.messages # <<>>
    /\ etl_conversations_fresh_split_compare(db, gap).conv_seq <= MaxConvSeq
    /\ db' = etl_conversations_fresh_split_compare(db, gap)
    /\ hist' = [Note("fresh", hist) EXCEPT
                   !.gap = gap,
                   !.matched = {c \in ChatsWithMessages(db) :
                                   MatchingSegments(db, c, gap) = FreshSegments(db, c, gap)}]
    /\ UNCHANGED <<source, attachment, cache, watcher, loop>>

\* ---------------------------------------------------------- specifications
\* Live watcher on one chat: messages and reactions from the user, in any
\* arrival order, some without a resolvable chat; a cycle may end in an
\* exception at any of its statements.
LiveRows ==
    [chat : {1}, date : Times, type : {0} \cup ReactionTypes]
        \cup [chat : {0}, date : {0}, type : {0}]

WriteLive == \E t \in LiveRows : WriteRow(MaxLiveRows, t.chat, t.date, t.type, TRUE, 0)

CycleOk == \E tieHigh \in BOOLEAN : WatchCycle("none", tieHigh)

CycleAny == \E failAt \in CyclePoints, tieHigh \in BOOLEAN : WatchCycle(failAt, tieHigh)

NextLive == WriteLive \/ CycleAny

SpecLive == Init /\ [][NextLive]_vars

\* Live watcher and backup runs of the conversation step on two chats.
WriteChats ==
    \E chat \in ChatRowids, date \in Times : WriteRow(MaxRows, chat, date, 0, TRUE, 0)

FreshRun == \E gap \in FreshGaps : FreshSplit(gap)

Next == WriteChats \/ CycleOk \/ FreshRun

Spec == Init /\ [][Next]_vars

\* Watcher with stops and starts of the process: rows of every message
\* type in old and new chats.
RestartRows ==
    [chat : 0..NumChats, date : {0}, type : {0, NULL} \cup ReactionTypes]

WriteRestart ==
    \E t \in RestartRows : WriteRow(MaxRestartRows, t.chat, t.date, t.type, TRUE, 0)

Restarted == \E tieHigh \in BOOLEAN : Restart(tieHigh)

NextRestart == WriteRestart \/ CycleAny \/ Restarted

SpecRestart == Init /\ [][NextRestart]_vars

\* sync_messages called by itself: rows from the user and from two
\* spellings of a correspondent's handle, some joined to two chats.
SyncRows ==
    [chat : {1}, type : {0} \cup ReactionTypes, from_me : {TRUE}, sender : {0}]
        \cup [chat : {0}, type : {0}, from_me : {TRUE}, sender : {0}]
        \cup [chat : {1}, type : {0}, from_me : {FALSE}, sender : {1, 2}]

WriteSync ==
    \E t \in SyncRows : WriteRow(MaxSyncRows, t.chat, 0, t.type, t.from_me, t.sender)

JoinSync == \E chat \in ChatRowids : WriteJoin(MaxSyncRows + 1, chat)

SyncAny == \E last_rowid \in 0..(MaxSyncRows - 1), failAt \in FailPoints :
               SyncCall(last_rowid, failAt)

NextSync == WriteSync \/ JoinSync \/ SyncAny

SpecSync == Init /\ [][NextSync]_vars

\* _split_into_conversations by itself, on every list of up to MaxSplitLen
\* messages of one chat in ascending timestamp order, with gaps below, at
\* and one second above the threshold.
SplitTimes == Times \cup {2 * DEFAULT_GAP_THRESHOLD + 1}

SplitInputs ==
    {ts \in UNION {[1..n -> SplitTimes] : n \in 0..MaxSplitLen} :
        \A k \in 1..(Len(ts) - 1) : ts[k] <= ts[k + 1]}

\* A store that holds one chat and, for every timestamp of ts, a message of
\* the user in that chat
StoreOfChat(ts) ==
    [ensure_user_contact(EmptyDb) EXCEPT
        !.messages = [k \in DOMAIN ts |->
                         [guid |-> k, chat_id |-> 1, sender_id |-> 1, ts |-> ts[k],
                          message_type |-> 0, conversation_id |-> 0]],
        !.chats = <<[chat_identifier |-> {1}, is_group |-> FALSE,
                     total_messages |-> Len(ts)]>>,
        !.state = [apple_epoch_ns |-> 0, last_message_rowid |-> Len(ts),
                   last_attachment_rowid |-> 0]]

InitSplit ==
    /\ source = <<>>
    /\ attachment = <<>>
    /\ loop = LoopIdle
    /\ \E ts \in SplitInputs : db = StoreOfChat(ts)
    /\ cache = reset_all_caches
    /\ watcher = [running |-> FALSE, connection |-> FALSE, current_watermark_ns |-> 0,
                  current_message_rowid |-> 0, current_attachment_rowid |-> 0]
    /\ hist = Note("init", [skipped |-> {}, restarts |-> 0, failed |-> FALSE, turn |-> 0])

\* _split_into_conversations(messages, gap) on the messages of the store in
\* id order
SplitRun(gap) ==
    /\ hist' = [Note("split", hist) EXCEPT
                   !.gap = gap,
                   !.blocks = SplitIntoConversations(db, [k \in DOMAIN db.messages |-> k], gap)]
    /\ UNCHANGED <<source, attachment, db, cache, watcher, loop>>

NextSplit == \E gap \in FreshGaps : SplitRun(gap)

SpecSplit == InitSplit /\ [][NextSplit]_vars

\* ------------------------------------------------- etl_conversations alone
\* The conversation step called by itself on the store, as the importer and
\* the watcher call it: for one chat or for all, with or without a cut-off.
EtlApply(convs, r) ==
    /\ r.db.conv_seq <= MaxEtlConvs
    /\ \A x \in r.db.conversations : x.message_count <= MaxEtlCount
    /\ db' = r.db
    /\ hist' = [Note("etl", hist) EXCEPT
                   !.imported_count = r.imported,
                   !.updated_count = r.updated,
                   !.gap = DEFAULT_GAP_THRESHOLD,
                   !.blocks = convs]
    /\ UNCHANGED <<source, attachment, cache, watcher, loop>>

EtlLoad(convs, chat, tieHigh) ==
    EtlApply(convs, LoadConversations(db, convs, chat, tieHigh))

EtlRun(chat, since, tieHigh) ==
    /\ db.messages # <<>>
    /\ EtlLoad(TransformConversations(db,
                   ExtractConversations(db, chat, since, DEFAULT_GAP_THRESHOLD),
                   DEFAULT_GAP_THRESHOLD),
               chat, tieHigh)

\* The source's owner writes the next row once the previous one is stored.
WriteEtl ==
    /\ Len(source) = Len(db.messages)
    /\ \E chat \in ChatRowids, date \in Times :
           WriteRow(MaxEtlRows, chat, date, 0, TRUE, 0)

\* The caller resumes after the newest row it has stored.
SyncOk == SyncCall(SetMax({0} \cup {db.messages[i].guid : i \in DOMAIN db.messages}), "none")

EtlAny ==
    \E chat \in 0..NumChats, since \in Times \cup {NULL}, tieHigh \in BOOLEAN :
        EtlRun(chat, since, tieHigh)

NextEtl == WriteEtl \/ SyncOk \/ EtlAny

SpecEtl == Init /\ [][NextEtl]_vars

\* ------------------------------------------------ starts of the process
\* The process has not been started yet: chat.db gets messages and
\* attachments before and between the starts, a start may end between the
\* two row-id watermarks, and a cycle may fail to read chat.db.
InitStart ==
    /\ source = <<>>
    /\ attachment = <<>>
    /\ loop = LoopIdle
    /\ db = EmptyDb
    /\ cache = reset_all_caches
    /\ watcher = [running |-> FALSE, connection |-> FALSE, current_watermark_ns |-> 0,
                  current_message_rowid |-> 0, current_attachment_rowid |-> 0]
    /\ hist = Note("init", [skipped |-> {}, restarts |-> 0, failed |-> FALSE, turn |-> 0])

WriteStart == WriteRow(MaxStartRows, 1, 0, 0, TRUE, 0)

AttachStart == \E m \in 1..MaxStartRows : WriteAttachment(MaxStartAtts, m)

StartFailed == \E tieHigh \in BOOLEAN : StartFails(tieHigh)

ReadFailed == \E which \in {"fetch_new_messages", "fetch_new_attachments"} : ReadFails(which)

NextStart ==
    \/ WriteStart
    \/ AttachStart
    \/ Restarted
    \/ StartFailed
    \/ CycleOk
    \/ AttachmentCycle
    \/ ReadFailed

SpecStart == InitStart /\ [][NextStart]_vars

\* ------------------------------------------------------- the event loop
\* watch() as the event loop runs it: the Poller and the Consumer are tasks
\* of one loop, so each runs from one await to the next without the other in
\* between.  The Consumer awaits change_queue.get() (pc "get") or the sleep
\* that follows an accepted event (pc "sleep"); the pass over chat.db has no
\* await in it.

\* The clock advances.
Tick ==
    /\ loop.now < MaxClock
    /\ loop' = [loop EXCEPT !.now = @ + 1]
    /\ hist' = Note("tick", hist)
    /\ UNCHANGED <<source, attachment, db, cache, watcher>>

\* A variant of the Poller's turn that also writes the Consumer's
\* last_sync_time.
poll_for_changes_stamping(l, changed) ==
    IF changed THEN [l EXCEPT !.queue = @ + 1, !.last_sync_time = l.now] ELSE l

\* poll_for_changes, one turn of its loop: the two files are stat'ed and,
\* when a modification time has changed, the time is put on the queue
poll_for_changes(l, changed) ==
    IF changed THEN [l EXCEPT !.queue = @ + 1] ELSE l

Poll(changed) ==
    /\ loop.poller = "running"
    /\ loop.queue < MaxQueue
    /\ loop' = poll_for_changes(loop, changed)
    /\ hist' = Note("poll", hist)
    /\ UNCHANGED <<source, attachment, db, cache, watcher>>

\* A variant of the debounce test that also drops an event that comes exactly
\* DEBOUNCE_MS after last_sync_time.
DebouncedInclusive(now, last_sync_time) == now - last_sync_time <= DEBOUNCE_MS

\* wal.py lines 110-112: an event that comes less than DEBOUNCE_MS after
\* last_sync_time is dropped
Debounced(now, last_sync_time) == now - last_sync_time < DEBOUNCE_MS

\* wal.py lines 108-114: the Consumer takes an event off the queue and drops
\* it or starts the sleep of DEBOUNCE_MS and 25 ms
Dequeue ==
    /\ loop.pc = "get"
    /\ loop.queue > 0
    /\ loop' = IF Debounced(loop.now, loop.last_sync_time)
               THEN [loop EXCEPT !.queue = @ - 1]
               ELSE [loop EXCEPT !.queue = @ - 1, !.pc = "sleep",
                                 !.wake = loop.now + SleepTicks]
    /\ hist' = Note(IF Debounced(loop.now, loop.last_sync_time) THEN "drop" ELSE "accept",
                    hist)
    /\ UNCHANGED <<source, attachment, db, cache, watcher>>

\* wal.py lines 115-127: the sleep is over, last_sync_time is taken from the
\* clock, and the pass finds nothing new in chat.db
IdlePass ==
    /\ loop.pc = "sleep"
    /\ loop.now >= loop.wake
    /\ watcher.running
    /\ fetch_new_messages(source, watcher.current_message_rowid).rows = <<>>
    /\ fetch_new_attachments(attachment, watcher.current_attachment_rowid).rows = <<>>
    /\ loop' = [loop EXCEPT !.pc = "get", !.last_sync_time = loop.now]
    /\ hist' = Note("cycle", hist)
    /\ UNCHANGED <<source, attachment, db, cache, watcher>>

\* wal.py lines 115-233: the sleep is over, last_sync_time is taken from the
\* clock, and the pass is made; when it raises, the finally clause cancels
\* the Poller and awaits it before the exception leaves watch()
LoopPass(failAt, tieHigh) ==
    /\ loop.pc = "sleep"
    /\ loop.now >= loop.wake
    /\ WatchPass(failAt, tieHigh)
    /\ loop' = IF watcher'.running
               THEN [loop EXCEPT !.pc = "get", !.last_sync_time = loop.now]
               ELSE [loop EXCEPT !.pc = "done", !.poller = "done",
                                 !.last_sync_time = loop.now]

\* A variant of the cancellation that leaves the Poller running.
CancelledAlone(l) == [l EXCEPT !.pc = "finally"]

\* wal.py lines 225-233: CancelledError reaches the Consumer at its await;
\* no handler of watch() catches it, the finally clause cancels the Poller
\* and awaits it
Cancelled(l) == [l EXCEPT !.pc = "finally", !.poller = "cancelling"]

CancelWatcher ==
    /\ loop.pc \in {"get", "sleep"}
    /\ loop' = Cancelled(loop)
    /\ watcher' = [watcher EXCEPT !.running = FALSE]
    /\ hist' = Note("cancel", hist)
    /\ UNCHANGED <<source, attachment, db, cache>>

\* wal.py line 46: CancelledError reaches the Poller at its sleep and ends it
PollerExit ==
    /\ loop.poller = "cancelling"
    /\ loop' = [loop EXCEPT !.poller = "done"]
    /\ hist' = Note("poller_exit", hist)
    /\ UNCHANGED <<source, attachment, db, cache, watcher>>

\* wal.py lines 228-231: the await of the Poller returns and watch() ends
WatcherExit ==
    /\ loop.pc = "finally"
    /\ loop.poller = "done"
    /\ loop' = [loop EXCEPT !.pc = "done"]
    /\ hist' = Note("exit", hist)
    /\ UNCHANGED <<source, attachment, db, cache, watcher>>

WriteLoop == WriteRow(MaxLoopRows, 1, 0, 0, TRUE, 0)

Polled == \E changed \in BOOLEAN : Poll(changed)

LoopPassAny == \E failAt \in CyclePoints, tieHigh \in BOOLEAN : LoopPass(failAt, tieHigh)

NextLoop ==
    \/ WriteLoop
    \/ Tick
    \/ Polled
    \/ Dequeue
    \/ IdlePass
    \/ LoopPassAny
    \/ CancelWatcher
    \/ PollerExit
    \/ WatcherExit

SpecLoop == Init /\ [][NextLoop]_vars

\* ------------------------------------------------------------------ claims
Disjoint(a, b) == ~(a.start_time <= b.end_time /\ a.end_time >= b.start_time)

\* C1: after any sequence of live watcher cycles, the conversations of a chat
\* have pairwise non-overlapping intervals, whatever the arrival order.
C1_LiveNoOverlap ==
    \A a, b \in db.conversations :
        (a.id # b.id /\ a.chat_id = b.chat_id) => Disjoint(a, b)

\* C2: when etl_conversations_fresh_split_compare has finished, no two
\* conversations of a chat overlap, whatever the store held before the run.
C2_FreshNoOverlap ==
    hist.op = "fresh" =>
        \A a, b \in db.conversations :
            (a.id # b.id /\ a.chat_id = b.chat_id) => Disjoint(a, b)

\* C3: a fresh-split run writes nothing for a chat whose fresh segments are
\* all held exactly by existing conversations of the chat: its conversation
\* rows and its messages' conversation ids are as before.
C3_FreshAllMatchNoWrite ==
    [][\A g \in FreshGaps : \A chat \in ChatsWithMessages(db) :
          (/\ hist'.op = "fresh" /\ hist'.gap = g
           /\ db' = etl_conversations_fresh_split_compare(db, g)
           /\ MatchingSegments(db, chat, g) = FreshSegments(db, chat, g))
          => (/\ ConvsOfChat(db', chat) = ConvsOfChat(db, chat)
              /\ \A i \in MessagesOfChat(db, chat) : db'.messages[i] = db.messages[i])]_vars

\* A fresh-split run has left one chat alone, all of whose segments
\* matched, and has rewritten the conversations of another.
C3_Witness ==
    /\ hist.op = "fresh"
    /\ hist.matched # {}
    /\ \E c \in ChatsWithMessages(db) \ hist.matched :
          \E x \in ConvsOfChat(db, c) : x.id = db.conv_seq

\* C4: on a chat where some fresh segments match and others do not, a
\* matching segment keeps its conversation row, a non-matching one gets one
\* new conversation, and afterwards the message sets of the chat's
\* conversations are exactly the fresh segments.
C4_FreshMixed ==
    [][\A g \in FreshGaps : \A chat \in ChatsWithMessages(db) :
          LET segs == FreshSegments(db, chat, g)
              match == MatchingSegments(db, chat, g)
          IN (/\ hist'.op = "fresh" /\ hist'.gap = g
              /\ db' = etl_conversations_fresh_split_compare(db, g)
              /\ match # {} /\ match # segs)
             => (/\ \A seg \in match :
                      \E c \in ConvsOfChat(db, chat) :
                          /\ AttachedTo(db, c.id) = seg
                          /\ c \in ConvsOfChat(db', chat)
                          /\ AttachedTo(db', c.id) = seg
                 /\ \A seg \in segs \ match :
                      \E c \in ConvsOfChat(db', chat) :
                          /\ c.id > db.conv_seq
                          /\ AttachedTo(db', c.id) = seg
                 /\ {AttachedTo(db', c.id) : c \in ConvsOfChat(db', chat)} = segs)]_vars

BatchMaxRowid(batch) == SetMax({batch[k].message_id : k \in DOMAIN batch})

BatchMaxDate(batch) == SetMax({batch[k].date : k \in DOMAIN batch})

StoredGuids(d) ==
    {d.messages[i].guid : i \in DOMAIN d.messages}
        \cup {d.reactions[i].guid : i \in DOMAIN d.reactions}

\* C7: between cycles, every source row at or below the persisted
\* last_message_rowid (and above the initial watermark, 0) is in the store
\* as a message or a reaction of its GUID, unless sync_messages reported it
\* as skipped.
C7_NoRowBehindWatermark ==
    \A k \in DOMAIN source :
        (/\ source[k].message_id <= db.state.last_message_rowid
         /\ source[k].message_id \notin hist.skipped)
        => source[k].guid \in StoredGuids(db)

\* A cycle raised, the process was started again, and a later cycle has
\* imported a message and moved the watermark past every source row.
C7_Witness ==
    /\ hist.failed /\ hist.restarts > 0
    /\ hist.op = "cycle" /\ ~hist.raised /\ hist.imported_count > 0
    /\ Len(source) = MaxRestartRows
    /\ db.state.last_message_rowid = source[Len(source)].message_id

\* C5: a second call of sync_messages with the batch of the call before it
\* (no store failure in either) changes nothing in the store and returns
\* (0, {}).
C5_SecondCallNoChange ==
    [][(/\ hist.op = "sync" /\ hist'.op = "sync"
        /\ hist.fail = "none" /\ hist'.fail = "none"
        /\ hist'.batch = hist.batch)
          => (/\ db' = db
              /\ ~hist'.raised
              /\ hist'.imported_count = 0
              /\ hist'.chat_counts = EmptyMap)]_vars

\* The number of rows of the store, messages and reactions, with a GUID
StoredCount(d, g) ==
    Cardinality({i \in DOMAIN d.messages : d.messages[i].guid = g})
        + Cardinality({i \in DOMAIN d.reactions : d.reactions[i].guid = g})

\* C8: once the process has been started again, between cycles every source
\* row at or below the persisted last_message_rowid is in the store exactly
\* once.
C8_ExactlyOnceAfterRestart ==
    (hist.restarts > 0 /\ watcher.running) =>
        \A k \in DOMAIN source :
            source[k].message_id <= db.state.last_message_rowid
                => StoredCount(db, source[k].guid) = 1

\* C9: a stored source row of a type other than 0 and null is in the
\* reactions table only, one of type 0 or null in the messages table only.
C9_TypeDecidesTable ==
    \A k \in DOMAIN source :
        LET inMessages == \E i \in DOMAIN db.messages : db.messages[i].guid = source[k].guid
            inReactions == \E i \in DOMAIN db.reactions : db.reactions[i].guid = source[k].guid
        IN IF source[k].message_type \in {0, NULL} THEN ~inReactions ELSE ~inMessages

\* C10: after any sequence of sync_messages calls, the message cache maps the
\* GUID of every stored message to the message's id.
C10_CacheKnowsStoredMessages ==
    \A i \in DOMAIN db.messages : MapGet(cache.message, db.messages[i].guid) = i

\* sync_messages has been called on both rows of the source, one batch
\* after the other, and has stored two messages.
C10_Witness ==
    /\ hist.op = "sync" /\ ~hist.raised /\ hist.imported_count = 1
    /\ Len(db.messages) = 2
    /\ DOMAIN cache.message = {db.messages[i].guid : i \in DOMAIN db.messages}

\* C11: in every state, also after a call of sync_messages that raised and
\* was rolled back, every entry of the chat, contact, message and reaction
\* caches stands for a row of the store.
C11_CachesHoldOnlyStored ==
    /\ \A g \in DOMAIN cache.message :
          /\ cache.message[g] \in DOMAIN db.messages
          /\ db.messages[cache.message[g]].guid = g
    /\ \A g \in cache.reaction :
          \E i \in DOMAIN db.reactions : db.reactions[i].guid = g
    /\ \A x \in DOMAIN cache.chat :
          /\ cache.chat[x] \in DOMAIN db.chats
          /\ db.chats[cache.chat[x]].chat_identifier = x
    /\ \A k \in DOMAIN cache.contact :
          \E i \in DOMAIN db.contact_identifiers :
              /\ db.contact_identifiers[i].contact_id = cache.contact[k]
              /\ NormalizeSender(db.contact_identifiers[i].identifier) = k

\* C12: a cycle in which an operation on the store raised ends with the
\* row-id and timestamp watermarks as they were, in the store and in the
\* watcher's memory.
C12_RaiseKeepsWatermarks ==
    [][(hist'.op = "cycle" /\ hist'.raised)
          => (/\ db'.state = db.state
              /\ watcher'.current_message_rowid = watcher.current_message_rowid
              /\ watcher'.current_watermark_ns = watcher.current_watermark_ns)]_vars

\* C13: a cycle that raised leaves the watcher running, ready for the next
\* event.
C13_WatcherKeepsRunning ==
    [][(hist'.op = "cycle" /\ hist'.raised) => watcher'.running]_vars

\* C14: a call of sync_messages (no store failure) on a batch in which two
\* rows have the same GUID does not raise, and every row of the batch that
\* it did not skip is in the store afterwards.
C14_CollisionIgnored ==
    [][(/\ hist'.op = "sync" /\ hist'.fail = "none"
        /\ \E i, j \in DOMAIN hist'.batch :
              i # j /\ hist'.batch[i].guid = hist'.batch[j].guid)
          => (/\ ~hist'.raised
              /\ \A k \in DOMAIN hist'.batch :
                    hist'.batch[k].message_id \notin hist'.skipped
                        => hist'.batch[k].guid \in StoredGuids(db'))]_vars

RECURSIVE Concat(_)
Concat(seqs) == IF seqs = <<>> THEN <<>> ELSE Head(seqs) \o Concat(Tail(seqs))

\* The index of the block that holds message i
BlockOf(blocks, i) ==
    CHOOSE b \in DOMAIN blocks : \E k \in DOMAIN blocks[b].message_ids :
                                      blocks[b].message_ids[k] = i

\* C15: the segments that _split_into_conversations returns for a list in
\* ascending timestamp order hold every message once, in the order of the
\* list; two neighbours are in one segment exactly when their gap is at most
\* the threshold; a segment starts and ends at the timestamps of its first
\* and last message.
C15_SplitPartitions ==
    hist.op = "split" =>
        LET blocks == hist.blocks
            n == Len(db.messages)
        IN /\ Concat([b \in DOMAIN blocks |-> blocks[b].message_ids]) = [k \in 1..n |-> k]
           /\ \A b \in DOMAIN blocks :
                 /\ blocks[b].message_ids # <<>>
                 /\ blocks[b].start_time = db.messages[Head(blocks[b].message_ids)].ts
                 /\ blocks[b].end_time =
                       db.messages[blocks[b].message_ids[Len(blocks[b].message_ids)]].ts
           /\ \A i \in 1..(n - 1) :
                 (BlockOf(blocks, i) = BlockOf(blocks, i + 1))
                     <=> (db.messages[i + 1].ts - db.messages[i].ts <= hist.gap)

\* Three messages, the second at the threshold from the first and the third
\* one second more than the threshold from the second, were split in two.
C15_Witness ==
    /\ hist.op = "split" /\ hist.gap = DEFAULT_GAP_THRESHOLD
    /\ Len(db.messages) = 3
    /\ db.messages[2].ts - db.messages[1].ts = DEFAULT_GAP_THRESHOLD
    /\ db.messages[3].ts - db.messages[2].ts = DEFAULT_GAP_THRESHOLD + 1
    /\ Len(hist.blocks) = 2
    /\ hist.blocks[1].message_ids = <<1, 2>>

\* C16 -- load_conversations handles each incoming segment against the chat's
\* current last conversation (the most recent by end time when the call
\* starts, then the conversation the previous segment of the chat went to):
\* when there is one and 0 <= segment start - its end <= the gap threshold,
\* bounds included, the segment is appended to it (end time moved to the
\* segment's end, count raised, messages attached); otherwise exactly one new
\* conversation row is created for the segment.
C16_MostRecent(d, c, tie) ==
    LET cs == {x \in d.conversations : x.chat_id = c}
        m == SetMax({x.end_time : x \in cs})
        ids == {x.id : x \in {y \in cs : y.end_time = m}}
    IN IF cs = {} THEN 0 ELSE IF tie THEN SetMax(ids) ELSE SetMin(ids)

C16_EndOf(d, id) ==
    IF id = 0 THEN NULL ELSE (CHOOSE x \in d.conversations : x.id = id).end_time

RECURSIVE C16_Expected(_, _, _, _)
C16_Expected(d, lastId, lastEnd, segs) ==
    IF segs = <<>> THEN d
    ELSE LET seg == Head(segs)
             c == seg.chat_id
             diff == seg.start_time - lastEnd[c]
             fits == lastId[c] # 0 /\ 0 <= diff /\ diff <= seg.gap_threshold
             target == IF fits THEN lastId[c] ELSE d.conv_seq + 1
             msgs == [i \in DOMAIN d.messages |->
                         IF \E k \in DOMAIN seg.message_ids : seg.message_ids[k] = i
                         THEN [d.messages[i] EXCEPT !.conversation_id = target]
                         ELSE d.messages[i]]
             convs == IF fits
                      THEN {IF x.id = target
                            THEN [x EXCEPT !.end_time = seg.end_time,
                                           !.message_count = x.message_count + seg.message_count]
                            ELSE x : x \in d.conversations}
                      ELSE d.conversations \cup
                           {[id |-> target, chat_id |-> c,
                             initiator_id |-> seg.initiator_id,
                             start_time |-> seg.start_time, end_time |-> seg.end_time,
                             message_count |-> seg.message_count,
                             gap_threshold |-> seg.gap_threshold]}
         IN C16_Expected([d EXCEPT !.messages = msgs, !.conversations = convs,
                                   !.conv_seq = IF fits THEN d.conv_seq ELSE target],
                         [lastId EXCEPT ![c] = target],
                         [lastEnd EXCEPT ![c] = seg.end_time],
                         Tail(segs))

C16_AppendOrCreate ==
    [][hist'.op = "etl" =>
          \E tie \in BOOLEAN :
              db' = C16_Expected(db,
                                 [c \in DOMAIN db.chats |-> C16_MostRecent(db, c, tie)],
                                 [c \in DOMAIN db.chats |->
                                     C16_EndOf(db, C16_MostRecent(db, c, tie))],
                                 hist'.blocks)]_vars

\* A call has appended one segment to a stored conversation and created a
\* conversation for another.
C16_Witness ==
    /\ hist.op = "etl"
    /\ hist.updated_count > 0
    /\ hist.imported_count > 0

\* C17 -- in every reachable state, after any mix of live reconciliation and
\* fresh-split runs, every message with a conversation id refers to a
\* conversation row that exists and belongs to the message's chat.
C17_RefersToOwnChat ==
    \A i \in DOMAIN db.messages :
        db.messages[i].conversation_id # 0 =>
            \E c \in db.conversations :
                /\ c.id = db.messages[i].conversation_id
                /\ c.chat_id = db.messages[i].chat_id

\* A fresh-split run has deleted a conversation that live reconciliation had
\* created, and messages of two chats are attached.
C17_Witness ==
    /\ hist.op = "fresh"
    /\ Cardinality(db.conversations) < db.conv_seq
    /\ \E i, j \in DOMAIN db.messages :
          /\ db.messages[i].chat_id # db.messages[j].chat_id
          /\ db.messages[i].conversation_id # 0
          /\ db.messages[j].conversation_id # 0

\* C18 -- after a watcher cycle that completes without error, every type-0
\* message stored by that cycle that has a sender and a timestamp has a
\* conversation id, wherever its timestamp lies relative to the timestamp
\* watermark the cycle used as the cut-off.
C18_StoredMessagesAttached ==
    [][(hist'.op = "cycle" /\ ~hist'.raised) =>
          \A i \in DOMAIN db'.messages \ DOMAIN db.messages :
              (/\ db'.messages[i].message_type = 0
               /\ db'.messages[i].sender_id # 0
               /\ db'.messages[i].ts # NULL)
                  => db'.messages[i].conversation_id # 0]_vars

\* C19 -- a start of the process initialises each row-id watermark that is
\* absent to the current maximum ROWID of its table of chat.db, the message
\* and the attachment watermark each by itself (also when the other is set),
\* so that the watcher's first cycle extracts no row that chat.db held before
\* the start.  A watermark reads 0 when its key is absent.
C19_EachWatermarkInitialised ==
    [][hist'.op = "restart" =>
          /\ db.state.last_message_rowid = NULL =>
                /\ get_message_rowid_watermark(db') = MaxMessageRowid(source)
                /\ fetch_new_messages(source, watcher'.current_message_rowid).rows = <<>>
          /\ db.state.last_attachment_rowid = NULL =>
                /\ get_attachment_rowid_watermark(db') = MaxAttachmentRowid(attachment)
                /\ fetch_new_attachments(attachment,
                       watcher'.current_attachment_rowid).rows = <<>>]_vars

\* C20 -- when the read of chat.db by fetch_new_messages or
\* fetch_new_attachments fails, the call returns an empty batch and the
\* watermark it was given and clears the cached connection: the watcher goes
\* on with its watermarks and the store unchanged, so that a later cycle
\* extracts the same rows.
C20_ReadFailureIsRetried ==
    [][(hist'.op = "cycle" /\ hist'.fail \in {"fetch_new_messages", "fetch_new_attachments"}) =>
          /\ watcher'.running
          /\ ~watcher'.connection
          /\ watcher'.current_message_rowid = watcher.current_message_rowid
          /\ watcher'.current_attachment_rowid = watcher.current_attachment_rowid
          /\ watcher'.current_watermark_ns = watcher.current_watermark_ns
          /\ db' = db]_vars

\* C21 -- when the watcher task is cancelled, at either await of its loop,
\* the Poller is cancelled and the watcher finishes only after the Poller has
\* ended; from the cancellation on no event is taken off the queue or added
\* to it, and the store, the caches and the watermarks are not written.
C21_CancelStopsQuietly ==
    [][/\ hist'.op = "cancel" =>
            /\ loop'.poller # "running"
            /\ loop'.queue = loop.queue
            /\ db' = db
            /\ cache' = cache
       /\ loop.pc \in {"finally", "done"} =>
            /\ loop'.queue = loop.queue
            /\ loop'.pc # "get" /\ loop'.pc # "sleep"
            /\ db' = db
            /\ cache' = cache
            /\ watcher' = watcher
       /\ loop'.pc = "done" => loop'.poller = "done"]_vars

\* The watcher was cancelled and has finished with an event still queued and
\* a row of chat.db above its watermark.
C21_Witness ==
    /\ hist.op = "exit"
    /\ loop.pc = "done"
    /\ loop.queue > 0
    /\ fetch_new_messages(source, watcher.current_message_rowid).rows # <<>>

\* C22 -- the Consumer runs no cycle for an event it takes off the queue less
\* than 50 ms (two units) after last_sync_time, and leaves last_sync_time as
\* it is; for any other event it starts the sleep of 75 ms (three units), and
\* a cycle runs only at the end of such a sleep, once, and is the only step
\* that writes last_sync_time.
C22_DebounceThenOneCycle ==
    [][/\ loop'.queue < loop.queue =>
            /\ hist'.op # "cycle"
            /\ loop'.last_sync_time = loop.last_sync_time
            /\ db' = db
            /\ watcher' = watcher
            /\ IF loop.now - loop.last_sync_time < 2
               THEN loop'.pc = "get"
               ELSE loop'.pc = "sleep" /\ loop'.wake = loop.now + 3
       /\ hist'.op = "cycle" =>
            /\ loop.pc = "sleep"
            /\ loop.now >= loop.wake
            /\ loop'.pc # "sleep"
            /\ loop'.last_sync_time = loop.now
       /\ loop'.last_sync_time # loop.last_sync_time => hist'.op = "cycle"]_vars

\* An event has been dropped after a cycle has run.
C22_Witness ==
    /\ hist.op = "drop"
    /\ loop.last_sync_time > 0
    /\ loop.pc = "get"

\* C23 -- at most one cycle is in progress and nothing is interleaved with
\* it: a cycle begins and ends in one step of the Consumer, from the end of
\* its sleep to its next await, and the Poller's turn changes the queue
\* only, never the store, the caches, the watermarks or the Consumer.
C23_OneCycleAtATime ==
    [][/\ hist'.op = "poll" =>
            /\ db' = db
            /\ cache' = cache
            /\ watcher' = watcher
            /\ loop' = [loop EXCEPT !.queue = loop'.queue]
       /\ hist'.op = "cycle" =>
            /\ loop.pc = "sleep"
            /\ loop'.pc \in {"get", "done"}
            /\ loop'.queue = loop.queue
            /\ loop'.poller \in {loop.poller, "done"}]_vars

\* The Poller has queued an event while the Consumer sleeps before a cycle
\* and rows of chat.db wait for it.
C23_Witness ==
    /\ hist.op = "poll"
    /\ loop.pc = "sleep"
    /\ loop.queue > 0
    /\ fetch_new_messages(source, watcher.current_message_rowid).rows # <<>>

\* ------------------------------------------ three calls in session scopes
\* sync_messages, sync_attachments and load_conversations called by
\* themselves, each in its session scope, with an exception at a statement
\* of the body.
MaxScopeRows == 2
MaxScopeAtts == 2
MaxScopeConvs == 2
MaxScopeCount == 2

\* load_conversations(conversations, chat_id) with an exception raised in
\* the loop after failAfter conversations (NULL: none)
load_conversations(d, convs, chat, tieHigh, failAfter) ==
    LET handled == IF failAfter = NULL THEN convs ELSE SubSeq(convs, 1, failAfter)
        r == LoadConversations(d, handled, chat, tieHigh)
    IN session_scope(d, [db |-> r.db, imported |-> r.imported, updated |-> r.updated,
                         raised |-> failAfter # NULL])

ScopeWrite ==
    /\ Len(source) = Len(db.messages)
    /\ \E date \in Times : WriteRow(MaxScopeRows, 1, date, 0, TRUE, 0)

ScopeWriteAttachment == \E m \in 1..MaxScopeRows : WriteAttachment(MaxScopeAtts, m)

\* The caller resumes after the newest message it has stored.
ScopeSync ==
    \E failAt \in FailPoints :
        SyncCall(SetMax({0} \cup {db.messages[i].guid : i \in DOMAIN db.messages}), failAt)

\* sync_attachments called on the attachments above the newest stored one
ScopeAttach ==
    LET f == fetch_new_attachments(attachment,
                 SetMax({0} \cup {a.guid : a \in db.attachments}))
        r == sync_attachments(db, cache, f.rows)
    IN /\ f.rows # <<>>
       /\ db' = r.db
       /\ cache' = r.cache
       /\ hist' = [Note("sync_attachments", hist) EXCEPT
                      !.raised = r.raised,
                      !.imported_count = r.imported_count,
                      !.attachments = f.rows]
       /\ UNCHANGED <<source, attachment, watcher, loop>>

\* load_conversations called on the segments of the stored messages
ScopeLoad(chat, since, tieHigh, failAfter) ==
    LET convs == TransformConversations(db,
                     ExtractConversations(db, chat, since, DEFAULT_GAP_THRESHOLD),
                     DEFAULT_GAP_THRESHOLD)
        r == load_conversations(db, convs, chat, tieHigh, failAfter)
    IN /\ convs # <<>>
       /\ failAfter # NULL => failAfter < Len(convs)
       /\ r.db.conv_seq <= MaxScopeConvs
       /\ \A x \in r.db.conversations : x.message_count <= MaxScopeCount
       /\ db' = r.db
       /\ hist' = [Note("load_conversations", hist) EXCEPT
                      !.raised = r.raised,
                      !.imported_count = r.imported,
                      !.updated_count = r.updated,
                      !.blocks = convs,
                      !.fail = IF r.raised THEN "load_conversations" ELSE "none"]
       /\ UNCHANGED <<source, attachment, cache, watcher, loop>>

ScopeLoadAny ==
    \E chat \in {0, 1}, tieHigh \in BOOLEAN,
       failAfter \in {NULL} \cup (0..(MaxScopeRows - 1)) :
        ScopeLoad(chat, NULL, tieHigh, failAfter)

NextScope == ScopeWrite \/ ScopeWriteAttachment \/ ScopeSync \/ ScopeAttach \/ ScopeLoadAny

SpecScope == Init /\ [][NextScope]_vars

\* C24: a call of sync_messages, sync_attachments or load_conversations that
\* raised left the store exactly as it was before the call, and a call of
\* sync_messages or sync_attachments that returned left in the store every
\* row it reported as imported.
C24_ScopeCommitsOrRollsBack ==
    [][/\ (hist'.op \in {"sync", "sync_attachments", "load_conversations"} /\ hist'.raised)
           => db' = db
       /\ (hist'.op = "sync" /\ ~hist'.raised)
           => Len(db'.messages) + Len(db'.reactions)
                  = Len(db.messages) + Len(db.reactions) + hist'.imported_count
       /\ (hist'.op = "sync_attachments" /\ ~hist'.raised)
           => Cardinality(db'.attachments)
                  = Cardinality(db.attachments) + hist'.imported_count]_vars

\* A call raised after its body had written: sync_attachments after the
\* first of two rows, or load_conversations after the first of two segments.
C24_Witness ==
    /\ hist.raised
    /\ \/ hist.op = "sync_attachments" /\ Len(hist.attachments) = 2
                                       /\ db.attachments = {}
                                       /\ Len(db.messages) = 1
       \/ hist.op = "load_conversations" /\ Len(hist.blocks) = 2

\* C25: a live cycle leaves every stored message row as it was apart from its
\* conversation, and after the backup path has loaded the source again every
\* GUID that was stored before is still stored in exactly one row.
C25_KnownGuidOneRow ==
    [][/\ hist'.op = "cycle" =>
             \A i \in DOMAIN db.messages :
                 /\ i \in DOMAIN db'.messages
                 /\ [db'.messages[i] EXCEPT !.conversation_id = 0]
                        = [db.messages[i] EXCEPT !.conversation_id = 0]
       /\ hist'.op = "restart" =>
             \A i \in DOMAIN db.messages :
                 StoredCount(db', db.messages[i].guid) = 1]_vars

\* ------------------------------------------------- chats made on the fly
\* sync_messages called on batches whose rows belong to chats the store has
\* not seen: a chat of one participant, the group, and a chat without
\* participants whose rows fall back to their sender.
MaxChatRows == 3

ChatRows ==
    [chat : {1, GroupChatRowid}, type : {0}, from_me : {TRUE}, sender : {0}]
        \cup [chat : {0}, type : {0} \cup ReactionTypes, from_me : {FALSE}, sender : {1, 3}]

WriteChatRow ==
    \E t \in ChatRows : WriteRow(MaxChatRows, t.chat, 0, t.type, t.from_me, t.sender)

\* The caller resumes after the newest row it has stored.
ChatSync ==
    \E failAt \in {"none", "commit"} :
        SyncCall(SetMax({0} \cup {db.messages[i].guid : i \in DOMAIN db.messages}
                            \cup {db.reactions[i].guid : i \in DOMAIN db.reactions}),
                 failAt)

NextChat == WriteChatRow \/ ChatSync

SpecChat == Init /\ [][NextChat]_vars

\* The caches as a call of sync_messages sees them at its first row
C26_CachesAtCall ==
    get_chat_participants_map(source, get_chat_map(db, cache, FALSE), FALSE)

\* The rows of the batch whose chat identifier the chat cache does not hold
C26_NewChatRows ==
    {k \in DOMAIN hist'.batch :
        /\ LiveChatIdentifier(C26_CachesAtCall, hist'.batch[k]) # {}
        /\ MapGet(C26_CachesAtCall.chat,
                  LiveChatIdentifier(C26_CachesAtCall, hist'.batch[k])) = 0}

MaxFreshRows == 3

WriteFresh ==
    \E date \in Times, from_me \in BOOLEAN :
        WriteRow(MaxFreshRows, 1, date, 0, from_me, IF from_me THEN 0 ELSE 1)

NextFresh == WriteFresh \/ SyncOk \/ FreshRun

SpecFresh == Init /\ [][NextFresh]_vars

\* C27: a conversation that a run of the fresh split has inserted has as
\* initiator the sender of a message of the conversation with the earliest
\* timestamp.
C27_InitiatorIsFirstSender ==
    [][hist'.op = "fresh" =>
          \A conv \in db'.conversations :
              conv.id > db.conv_seq =>
                  \E i \in DOMAIN db'.messages :
                      /\ db'.messages[i].conversation_id = conv.id
                      /\ db'.messages[i].sender_id = conv.initiator_id
                      /\ \A j \in DOMAIN db'.messages :
                            db'.messages[j].conversation_id = conv.id
                                => db'.messages[i].ts <= db'.messages[j].ts]_vars

\* ------------------------------------------------- the user's own contact
\* A store without contacts on which sync_messages, ensure_user_contact, the
\* refresh from account_login and whole starts of the process run in any
\* order; a call of sync_messages may fail at its commit.
MaxMeRows == 2

WriteMe ==
    \E from_me \in BOOLEAN : WriteRow(MaxMeRows, 1, 0, 0, from_me, IF from_me THEN 0 ELSE 1)

MeSync ==
    \E failAt \in {"none", "commit"} :
        SyncCall(SetMax({0} \cup {db.messages[i].guid : i \in DOMAIN db.messages}), failAt)

MeEnsure ==
    /\ db' = ensure_user_contact(db)
    /\ hist' = Note("ensure_user_contact", hist)
    /\ UNCHANGED <<source, attachment, cache, watcher, loop>>

MeRefresh ==
    /\ db' = update_user_contact_from_account_login(db)
    /\ hist' = Note("update_user_contact_from_account_login", hist)
    /\ UNCHANGED <<source, attachment, cache, watcher, loop>>

NextMe == WriteMe \/ MeSync \/ MeEnsure \/ MeRefresh \/ Restarted

SpecMe == InitStart /\ [][NextMe]_vars

\* The contacts of a store that are the user's
C28_Me(d) == {i \in DOMAIN d.contacts : d.contacts[i].is_me}

MaxGuidLen == 4

GuidChars == {"/", ":", "a", "b"}

GuidStrings == UNION {[1..n -> GuidChars] : n \in 0..MaxGuidLen}

\* sep in s
Contains(s, sep) == \E i \in DOMAIN s : s[i] = sep

\* s.split(sep, 1)[-1] for a string that holds sep: what follows its first
\* occurrence
SplitOnceLast(s, sep) ==
    SubSeq(s, SetMin({i \in DOMAIN s : s[i] = sep}) + 1, Len(s))

\* _clean_guid(guid)
_clean_guid(guid) ==
    IF guid # <<>>
    THEN IF Contains(guid, "/") THEN SplitOnceLast(guid, "/")
         ELSE IF Contains(guid, ":") THEN SplitOnceLast(guid, ":")
         ELSE guid
    ELSE guid

InitGuid ==
    /\ source = <<>>
    /\ attachment = <<>>
    /\ loop = LoopIdle
    /\ db = EmptyDb
    /\ cache = reset_all_caches
    /\ watcher = [running |-> FALSE, connection |-> FALSE, current_watermark_ns |-> 0,
                  current_message_rowid |-> 0, current_attachment_rowid |-> 0]
    /\ \E g \in GuidStrings : hist = [op |-> "init", guid |-> g, result |-> <<>>]

CleanGuid ==
    /\ hist.op = "init"
    /\ hist' = [op |-> "_clean_guid", guid |-> hist.guid, result |-> _clean_guid(hist.guid)]
    /\ UNCHANGED <<source, attachment, db, cache, watcher, loop>>

NextGuid == CleanGuid

SpecGuid == InitGuid /\ [][NextGuid]_vars

\* C30: _clean_guid returns what follows the last "/" or ":" of its input,
\* and the input when it holds neither; "p:0/abc" gives "abc", "p:0/abc:def"
\* gives "def" and "plain" gives "plain".
C30_AfterLastSeparator ==
    hist.op = "_clean_guid" =>
    /\ LET seps == {i \in DOMAIN hist.guid : hist.guid[i] \in {"/", ":"}}
       IN hist.result = IF seps = {} THEN hist.guid
                        ELSE SubSeq(hist.guid, SetMax(seps) + 1, Len(hist.guid))
    /\ _clean_guid(<<"p", ":", "0", "/", "a", "b", "c">>) = <<"a", "b", "c">>
    /\ _clean_guid(<<"p", ":", "0", "/", "a", "b", "c", ":", "d", "e", "f">>) = <<"d", "e", "f">>
    /\ _clean_guid(<<"p", "l", "a", "i", "n">>) = <<"p", "l", "a", "i", "n">>

\* ------------------------------------------- generate_chat_identifier
\* The identifier as a string: generate_chat_identifier applied to every
\* list of up to MaxParticipants handles, each a string of up to
\* MaxHandleLen characters of a telephone number or one of two spellings of
\* an e-mail address.
MaxParticipants == 3
MaxHandleLen == 2

PhoneChars == {"1", "2", " ", "+"}

ParticipantHandles ==
    UNION {[1..n -> PhoneChars] : n \in 1..MaxHandleLen}
        \cup {<<"A", "@">>, <<"a", "@">>}

ParticipantLists == UNION {[1..n -> ParticipantHandles] : n \in 0..MaxParticipants}

\* ord(ch) for the characters of the model
CharCode(ch) ==
    CASE ch = " " -> 32 [] ch = "+" -> 43 [] ch = "," -> 44 [] ch = "1" -> 49
      [] ch = "2" -> 50 [] ch = "@" -> 64 [] ch = "A" -> 65 [] ch = "a" -> 97

\* a < b for two strings, as Python compares them
StrLess(a, b) ==
    \E i \in 1..Len(b) :
        /\ \A j \in 1..(i - 1) : j <= Len(a) /\ a[j] = b[j]
        /\ \/ i = Len(a) + 1
           \/ i <= Len(a) /\ CharCode(a[i]) < CharCode(b[i])

\* p.strip()
Strip(p) ==
    LET ink == {i \in DOMAIN p : p[i] # " "}
    IN IF ink = {} THEN <<>> ELSE SubSeq(p, SetMin(ink), SetMax(ink))

\* p.lower()
Lower(p) == [i \in DOMAIN p |-> IF p[i] = "A" THEN "a" ELSE p[i]]

\* normalize_phone_number(phone_number)
normalize_phone_number(p) ==
    LET digits == SelectSeq(p, LAMBDA ch : ch \in {"1", "2"})
    IN IF p = <<>> THEN <<>>
       ELSE IF Len(digits) = 11 /\ digits[1] = "1" THEN Tail(digits)
       ELSE digits

\* generate_chat_identifier lines 265-270: the normalised form of one entry
NormalizedParticipant(p) ==
    IF Contains(Strip(p), "@") THEN Lower(Strip(p)) ELSE normalize_phone_number(Strip(p))

\* sorted(S) for a set of strings
RECURSIVE Sorted(_)
Sorted(S) ==
    IF S = {} THEN <<>>
    ELSE LET least == CHOOSE a \in S : \A b \in S \ {a} : StrLess(a, b)
         IN <<least>> \o Sorted(S \ {least})

\* ','.join(parts)
RECURSIVE Join(_)
Join(parts) ==
    IF parts = <<>> THEN <<>>
    ELSE IF Len(parts) = 1 THEN parts[1]
    ELSE parts[1] \o <<",">> \o Join(Tail(parts))

\* Mutant of GenerateChatIdentifier: the normalised entries are joined in
\* the order of the list.
GenerateChatIdentifierUnsorted(participants) ==
    Join([k \in DOMAIN participants |-> NormalizedParticipant(participants[k])])

\* generate_chat_identifier(participants), as a string
GenerateChatIdentifier(participants) ==
    Join(Sorted({NormalizedParticipant(participants[k]) : k \in DOMAIN participants}))

InitIdentifier ==
    /\ source = <<>>
    /\ attachment = <<>>
    /\ loop = LoopIdle
    /\ db = EmptyDb
    /\ cache = reset_all_caches
    /\ watcher = [running |-> FALSE, connection |-> FALSE, current_watermark_ns |-> 0,
                  current_message_rowid |-> 0, current_attachment_rowid |-> 0]
    /\ \E p \in ParticipantLists :
           hist = [op |-> "init", participants |-> p, result |-> <<>>]

ApplyIdentifier ==
    /\ hist.op = "init"
    /\ hist' = [op |-> "generate_chat_identifier", participants |-> hist.participants,
                result |-> GenerateChatIdentifier(hist.participants)]
    /\ UNCHANGED <<source, attachment, db, cache, watcher, loop>>

NextIdentifier == ApplyIdentifier

SpecIdentifier == InitIdentifier /\ [][NextIdentifier]_vars

\* The pieces of a string between its commas
RECURSIVE C29_Pieces(_)
C29_Pieces(s) ==
    IF ~Contains(s, ",") THEN <<s>>
    ELSE LET at == SetMin({i \in DOMAIN s : s[i] = ","})
         IN <<SubSeq(s, 1, at - 1)>> \o C29_Pieces(SubSeq(s, at + 1, Len(s)))

\* C29: the identifier of a participant list is the identifier of every
\* list that holds the same participants in another order or more than
\* once, and its pieces between the commas are the normalised forms of the
\* participants, each once, in ascending order of their strings.
C29_CanonicalIdentifier ==
    hist.op = "generate_chat_identifier" =>
        LET p == hist.participants
            pieces == C29_Pieces(hist.result)
        IN /\ \A n \in 1..MaxParticipants :
                  \A q \in [1..n -> SeqToSet(p)] :
                      SeqToSet(q) = SeqToSet(p) => GenerateChatIdentifier(q) = hist.result
           /\ p = <<>> => hist.result = <<>>
           /\ p # <<>> =>
                 /\ SeqToSet(pieces) = {NormalizedParticipant(p[k]) : k \in DOMAIN p}
                 /\ \A i \in 1..(Len(pieces) - 1) : StrLess(pieces[i], pieces[i + 1])

\* The identifier of a list that names one number twice in two spellings,
\* after a number that sorts behind it as a string: "2, +2, 12" gives "12,2".
C29_Witness ==
    /\ hist.op = "generate_chat_identifier"
    /\ hist.participants = <<<<"2">>, <<"+", "2">>, <<"1", "2">>>>
    /\ hist.result = <<"1", "2", ",", "2">>

\* ------------------------------------------------ to_nanos and the decoder
\* A raw timestamp is a number m * 10^e, kept as the pair of m and e, so
\* that the thresholds 10^10, 10^13 and 10^16 and the factors 10^3, 10^6 and
\* 10^9 of the code are compared and applied exactly.  to_nanos and the
\* decoder are applied to every such number up to MaxMantissa and
\* MaxExponent.
MaxMantissa == 12
MaxExponent == 17

RawTimestamps == [m : 0..MaxMantissa, e : 0..MaxExponent]

\* The pair of a number without trailing zeros in m (0 is 0 * 10^0)
RECURSIVE Normal(_)
Normal(v) ==
    IF v.m = 0 THEN [m |-> 0, e |-> 0]
    ELSE IF v.m % 10 = 0 THEN Normal([m |-> v.m \div 10, e |-> v.e + 1])
    ELSE v

\* v * 10^k
Scale(v, k) == [m |-> v.m, e |-> v.e + k]

\* v > 10^k
Above(v, k) ==
    LET n == Normal(v)
    IN /\ n.m > 0
       /\ \/ n.e > k
          \/ n.e = k /\ n.m > 1
          \/ n.e = k - 1 /\ n.m > 10
          \/ n.e = k - 2 /\ n.m > 100

\* to_nanos(raw)
to_nanos(raw) ==
    IF Above(raw, 16) THEN raw
    ELSE IF Above(raw, 13) THEN Scale(raw, 3)
    ELSE IF Above(raw, 10) THEN Scale(raw, 6)
    ELSE Scale(raw, 9)

\* _convert_apple_timestamp(apple_timestamp): the instant, in nanoseconds
\* after the Apple epoch
_convert_apple_timestamp(ts) ==
    IF ~Above(ts, 10) THEN Scale(ts, 9)
    ELSE IF ~Above(ts, 16) THEN Scale(ts, 3)
    ELSE ts

InitNanos ==
    /\ source = <<>>
    /\ attachment = <<>>
    /\ loop = LoopIdle
    /\ db = EmptyDb
    /\ cache = reset_all_caches
    /\ watcher = [running |-> FALSE, connection |-> FALSE, current_watermark_ns |-> 0,
                  current_message_rowid |-> 0, current_attachment_rowid |-> 0]
    /\ \E raw \in RawTimestamps :
           hist = [op |-> "init", raw |-> raw, nanos |-> raw, direct |-> raw, live |-> raw]

\* extractors.py lines 137-141 and transform_message line 80: the row's date
\* goes through to_nanos and then through the decoder; the backup path
\* decodes it directly
ApplyNanos ==
    /\ hist.op = "init"
    /\ hist' = [op |-> "to_nanos", raw |-> hist.raw,
                nanos |-> to_nanos(hist.raw),
                direct |-> _convert_apple_timestamp(hist.raw),
                live |-> _convert_apple_timestamp(to_nanos(hist.raw))]
    /\ UNCHANGED <<source, attachment, db, cache, watcher, loop>>

NextNanos == ApplyNanos

SpecNanos == InitNanos /\ [][NextNanos]_vars

\* C31: to_nanos of a raw timestamp is the instant the decoder gives for it,
\* in nanoseconds, and the decoder gives the same instant for to_nanos of
\* the raw timestamp as for the raw timestamp.
C31_NanosAgreeWithDecoder ==
    hist.op = "to_nanos" =>
        /\ Normal(hist.nanos) = Normal(hist.direct)
        /\ Normal(hist.live) = Normal(hist.direct)

\* ---------------------------------------------------------------------------
\* The Poller's observation of the two files (wal.py lines 22-83)
\* ---------------------------------------------------------------------------

MaxMtime == 2

MaxPollQueue == 2

\* A file is missing or has a modification time
Missing == NULL

FileStates == {Missing} \cup (1..MaxMtime)

\* A variant of the WAL test without the "elif last_wal_mtime != 0.0" branch:
\* the disappearance of the WAL file is not a change.
StatWalNoDisappearance(last_wal_mtime, wal_file, vanishes) ==
    IF wal_file # Missing
    THEN IF vanishes
         THEN [changed |-> last_wal_mtime # 0, last |-> 0]
         ELSE [changed |-> \/ wal_file # last_wal_mtime
                           \/ (last_wal_mtime = 0 /\ wal_file # 0),
               last |-> wal_file]
    ELSE [changed |-> FALSE, last |-> last_wal_mtime]

\* wal.py lines 52-61: os.path.getmtime(db_path), FileNotFoundError when the
\* file is missing
StatDb(last_db_mtime, db_file) ==
    IF db_file # Missing
    THEN [changed |-> db_file # last_db_mtime, last |-> db_file]
    ELSE [changed |-> last_db_mtime # 0, last |-> 0]

\* wal.py lines 65-78: os.path.exists(wal_path), then os.path.getmtime, which
\* raises FileNotFoundError when the file vanishes between the two calls
StatWal(last_wal_mtime, wal_file, vanishes) ==
    IF wal_file # Missing
    THEN IF vanishes
         THEN [changed |-> last_wal_mtime # 0, last |-> 0]
         ELSE [changed |-> \/ wal_file # last_wal_mtime
                           \/ (last_wal_mtime = 0 /\ wal_file # 0),
               last |-> wal_file]
    ELSE IF last_wal_mtime # 0
         THEN [changed |-> TRUE, last |-> 0]
         ELSE [changed |-> FALSE, last |-> last_wal_mtime]

\* wal.py lines 29-43: the times read before the loop starts
InitialMtime(file) == IF file = Missing THEN 0 ELSE file

InitPoll ==
    /\ source = <<>>
    /\ attachment = <<>>
    /\ loop = LoopIdle
    /\ db = EmptyDb
    /\ cache = reset_all_caches
    /\ watcher = [running |-> FALSE, connection |-> FALSE, current_watermark_ns |-> 0,
                  current_message_rowid |-> 0, current_attachment_rowid |-> 0]
    /\ \E db_file \in FileStates, wal_file \in FileStates :
           hist = [op |-> "init", db_file |-> db_file, wal_file |-> wal_file,
                   last_db_mtime |-> InitialMtime(db_file),
                   last_wal_mtime |-> InitialMtime(wal_file),
                   prev_db_mtime |-> InitialMtime(db_file),
                   prev_wal_mtime |-> InitialMtime(wal_file),
                   queue |-> 0, enqueued |-> 0]

\* Messages writes to chat.db or to its WAL file, checkpoints the WAL away or
\* creates it
TouchFiles(db_file, wal_file) ==
    /\ <<db_file, wal_file>> # <<hist.db_file, hist.wal_file>>
    /\ hist' = [hist EXCEPT !.op = "touch", !.db_file = db_file, !.wal_file = wal_file,
                            !.enqueued = 0]
    /\ UNCHANGED <<source, attachment, db, cache, watcher, loop>>

\* wal.py lines 45-83: one turn of the Poller's loop after its sleep
PollFiles(vanishes) ==
    /\ hist.queue < MaxPollQueue
    /\ vanishes => hist.wal_file # Missing
    /\ LET d == StatDb(hist.last_db_mtime, hist.db_file)
           w == StatWal(hist.last_wal_mtime, hist.wal_file, vanishes)
           changed == d.changed \/ w.changed
       IN  hist' = [op |-> "poll", db_file |-> hist.db_file,
                    wal_file |-> IF vanishes THEN Missing ELSE hist.wal_file,
                    last_db_mtime |-> d.last, last_wal_mtime |-> w.last,
                    prev_db_mtime |-> hist.last_db_mtime,
                    prev_wal_mtime |-> hist.last_wal_mtime,
                    queue |-> IF changed THEN hist.queue + 1 ELSE hist.queue,
                    enqueued |-> IF changed THEN 1 ELSE 0]
    /\ UNCHANGED <<source, attachment, db, cache, watcher, loop>>

\* the Consumer takes an event off the queue
TakeEvent ==
    /\ hist.queue > 0
    /\ hist' = [hist EXCEPT !.op = "get", !.queue = @ - 1, !.enqueued = 0]
    /\ UNCHANGED <<source, attachment, db, cache, watcher, loop>>

NextPoll ==
    \/ \E db_file \in FileStates, wal_file \in FileStates : TouchFiles(db_file, wal_file)
    \/ \E vanishes \in BOOLEAN : PollFiles(vanishes)
    \/ TakeEvent

SpecPoll == InitPoll /\ [][NextPoll]_vars

\* C32: a poll enqueues exactly one event when the modification time of the
\* database or of the WAL file (zero for a missing file) differs from the
\* remembered one, enqueues nothing when both are the same, and remembers what
\* it has just observed.
C32_PollEnqueuesOnChange ==
    hist.op = "poll" =>
        LET now_db == InitialMtime(hist.db_file)
            now_wal == InitialMtime(hist.wal_file)
        IN  /\ hist.enqueued =
                   IF now_db # hist.prev_db_mtime \/ now_wal # hist.prev_wal_mtime
                   THEN 1 ELSE 0
            /\ hist.last_db_mtime = now_db
            /\ hist.last_wal_mtime = now_wal

\* a poll that found the WAL file gone while the database file is unchanged
C32_WalDisappeared ==
    /\ hist.op = "poll"
    /\ hist.wal_file = Missing
    /\ hist.prev_wal_mtime # 0
    /\ hist.prev_db_mtime = InitialMtime(hist.db_file)
    /\ hist.enqueued = 1
    /\ hist.queue = MaxPollQueue

\* ---------------------------------------------------------------------------
\* Unknown senders of a batch (sync_messages lines 108-203 and 255-275)
\* ---------------------------------------------------------------------------

MaxSenderRows == 3

\* Rows of the user and of three handles, two of which normalise to the same
\* canonical identifier
SenderRows ==
    [chat : {GroupChatRowid}, from_me : {FALSE}, sender : {1, 2, 3}]
        \cup [chat : {1}, from_me : {TRUE}, sender : {0}]

WriteSender ==
    \E t \in SenderRows : WriteRow(MaxSenderRows, t.chat, 0, 0, t.from_me, t.sender)

\* sync_messages on the rows above a row id; a call that raises ends the
\* watcher's process (wal.py lines 220-221), and the next process starts
\* with empty caches
SyncSenders(last_rowid, failAt) ==
    LET f == fetch_new_messages(source, last_rowid)
        r == sync_messages(source, db, cache, f.rows, failAt)
    IN /\ f.rows # <<>>
       /\ db' = r.db
       /\ cache' = IF r.raised THEN reset_all_caches ELSE r.cache
       /\ hist' = [Note("sync", hist) EXCEPT
                      !.raised = r.raised,
                      !.imported_count = r.imported_count,
                      !.chat_counts = r.chat_counts,
                      !.batch = f.rows,
                      !.fail = IF r.raised THEN failAt ELSE "none",
                      !.skipped = @ \cup r.skipped,
                      !.turn = 1 - @]
       /\ UNCHANGED <<source, attachment, watcher, loop>>

SyncSendersAny ==
    \E last_rowid \in 0..(MaxSenderRows - 1), failAt \in {"none", "insert_messages", "commit"} :
        SyncSenders(last_rowid, failAt)

NextSenders == WriteSender \/ SyncSendersAny

SpecSenders == Init /\ [][NextSenders]_vars

\* The canonical identifiers that have a contact in the store
KnownSenderKeys(d) ==
    {NormalizeSender(d.contact_identifiers[k].identifier) : k \in DOMAIN d.contact_identifiers}

\* The canonical identifiers of the batch's senders other than the user
BatchSenderKeys(batch) ==
    {NormalizeSender(batch[k].sender_identifier) :
        k \in {j \in DOMAIN batch : ~batch[j].is_from_me /\ batch[j].sender_identifier # 0}}

IdentifiersOf(d, contact_id) ==
    {k \in DOMAIN d.contact_identifiers : d.contact_identifiers[k].contact_id = contact_id}

\* C33: a call of sync_messages that returns creates one contact for each
\* canonical sender identifier of the batch that had none, with one
\* identifier of that canonical form; the contact cache then maps the
\* canonical identifier to that contact, and each message stored by the call
\* has as sender the contact of its row's canonical sender identifier, or the
\* user's contact when the row is from the user.
C33_OneContactPerUnknownSender ==
    [][(hist'.op = "sync" /\ ~hist'.raised) =>
        LET batch == hist'.batch
            unknown == BatchSenderKeys(batch) \ KnownSenderKeys(db)
            created == {i \in (DOMAIN db'.contacts) \ (DOMAIN db.contacts) :
                           ~db'.contacts[i].is_me}
            stored == (DOMAIN db'.messages) \ (DOMAIN db.messages)
        IN  /\ Cardinality(created) = Cardinality(unknown)
            /\ \A key \in unknown :
                   /\ key \in DOMAIN cache'.contact
                   /\ cache'.contact[key] \in created
                   /\ Cardinality(IdentifiersOf(db', cache'.contact[key])) = 1
                   /\ \A k \in IdentifiersOf(db', cache'.contact[key]) :
                          NormalizeSender(db'.contact_identifiers[k].identifier) = key
            /\ \A i \in stored :
                   \E k \in DOMAIN batch :
                       /\ batch[k].guid = db'.messages[i].guid
                       /\ IF batch[k].is_from_me
                          THEN db'.messages[i].sender_id = UserContactId(db')
                          ELSE /\ db'.messages[i].sender_id =
                                      cache'.contact[NormalizeSender(batch[k].sender_identifier)]
                               /\ \E c \in IdentifiersOf(db', db'.messages[i].sender_id) :
                                      NormalizeSender(db'.contact_identifiers[c].identifier)
                                          = NormalizeSender(batch[k].sender_identifier)
    ]_vars

\* a batch of three rows from two spellings of one sender and from a second
\* sender has been stored with two new contacts
C33_TwoSpellingsOneContact ==
    /\ hist.op = "sync"
    /\ ~hist.raised
    /\ Len(hist.batch) = 3
    /\ {hist.batch[k].sender_identifier : k \in DOMAIN hist.batch} = {1, 2, 3}
    /\ Cardinality(MsgIds(db)) = 3
    /\ Cardinality({i \in DOMAIN db.contacts : ~db.contacts[i].is_me}) = 2

\* ---------------------------------------------------------------------------
\* Segments without a sender (transform_conversations lines 155-185,
\* _replace_or_reuse_intervals lines 391-421)
\* ---------------------------------------------------------------------------

MaxSegmentRows == 3

\* messages.sender_id is a nullable column (local_session_manager.py line
\* 63); 0 stands for NULL, 1 is the user's contact and 2 a correspondent's
SegmentSenders == {0, 1, 2}

SegmentInputs ==
    {m \in UNION {[1..n -> [ts : Times, sender_id : SegmentSenders]] : n \in 1..MaxSegmentRows} :
        \A k \in 1..(Len(m) - 1) : m[k].ts <= m[k + 1].ts}

\* A store that holds one chat with the messages m and no conversation yet
StoreOfSegments(m) ==
    [ensure_user_contact(EmptyDb) EXCEPT
        !.contacts = Append(@, [name |-> 1, is_me |-> FALSE, data_source |-> "none"]),
        !.contact_identifiers = <<[contact_id |-> 2, identifier |-> 1]>>,
        !.messages = [k \in DOMAIN m |->
                         [guid |-> k, chat_id |-> 1, sender_id |-> m[k].sender_id,
                          ts |-> m[k].ts, message_type |-> 0, conversation_id |-> 0]],
        !.chats = <<[chat_identifier |-> {1}, is_group |-> FALSE,
                     total_messages |-> Len(m)]>>,
        !.state = [apple_epoch_ns |-> 0, last_message_rowid |-> Len(m),
                   last_attachment_rowid |-> 0]]

InitSegments ==
    /\ source = <<>>
    /\ attachment = <<>>
    /\ loop = LoopIdle
    /\ \E m \in SegmentInputs : db = StoreOfSegments(m)
    /\ cache = reset_all_caches
    /\ watcher = [running |-> FALSE, connection |-> FALSE, current_watermark_ns |-> 0,
                  current_message_rowid |-> 0, current_attachment_rowid |-> 0]
    /\ hist = Note("init", [skipped |-> {}, restarts |-> 0, failed |-> FALSE, turn |-> 0])

\* etl_conversations(chat_id) on the store, once
SegmentsLive(tieHigh) ==
    /\ hist.op = "init"
    /\ db' = EtlConversations(db, 1, NULL, DEFAULT_GAP_THRESHOLD, tieHigh).db
    /\ hist' = [Note("etl", hist) EXCEPT !.gap = DEFAULT_GAP_THRESHOLD]
    /\ UNCHANGED <<source, attachment, cache, watcher, loop>>

\* etl_conversations_fresh_split_compare() on the store, once
SegmentsFresh ==
    /\ hist.op = "init"
    /\ db' = etl_conversations_fresh_split_compare(db, DEFAULT_GAP_THRESHOLD)
    /\ hist' = [Note("fresh", hist) EXCEPT !.gap = DEFAULT_GAP_THRESHOLD]
    /\ UNCHANGED <<source, attachment, cache, watcher, loop>>

NextSegments == (\E tieHigh \in BOOLEAN : SegmentsLive(tieHigh)) \/ SegmentsFresh

SpecSegments == InitSegments /\ [][NextSegments]_vars

\* The first message in timestamp order, of a set of messages, that has a
\* sender
FirstWithSender(d, ids) ==
    LET withSender == {i \in ids : d.messages[i].sender_id # 0}
    IN CHOOSE i \in withSender : \A j \in withSender : Before(d, i, j)

\* the live path: every conversation has a message with a sender, its
\* initiator is the sender of the first such message and its message_count
\* is the number of its messages
C34_LiveSegments ==
    hist.op = "etl" =>
        \A c \in db.conversations :
            /\ \E i \in AttachedTo(db, c.id) : db.messages[i].sender_id # 0
            /\ c.initiator_id = db.messages[FirstWithSender(db, AttachedTo(db, c.id))].sender_id
            /\ c.message_count = Cardinality(AttachedTo(db, c.id))

\* C34: after either reconciliation path has run on a store without
\* conversations, no conversation exists whose messages all lack a sender;
\* after the live path each conversation's initiator is the sender of its
\* first message in timestamp order that has a sender, and its message_count
\* is the number of its messages.
C34_NoConversationWithoutSender ==
    /\ C34_LiveSegments
    /\ hist.op = "fresh" =>
           \A c \in db.conversations :
               \E i \in AttachedTo(db, c.id) : db.messages[i].sender_id # 0

\* C35: after a watcher cycle that completes without error, the
\* message_count of every conversation is the number of messages whose
\* conversation_id is that conversation, also when the cycle's cut-off
\* selects messages that an earlier cycle attached.
C35_MessageCountIsAttached ==
    (hist.op = "cycle" /\ ~hist.raised) =>
        \A c \in db.conversations :
            c.message_count = Cardinality(AttachedTo(db, c.id))

\* C36: a watcher cycle never lowers the timestamp watermark apple_epoch_ns,
\* neither the persisted one nor the watcher's copy, also when every row of
\* its batch is older than the watermark.
C36_WatermarkNeverDecreases ==
    [][hist'.op = "cycle" =>
          /\ db'.state.apple_epoch_ns >= db.state.apple_epoch_ns
          /\ watcher'.current_watermark_ns >= watcher.current_watermark_ns]_vars

\* ---------------------------------------------------------------------------
\* Rows that arrive in timestamp order (wal.py lines 129-206)
\* ---------------------------------------------------------------------------

MaxOrderedRows == 4

\* The source's owner writes a message that is not older than the newest one
WriteOrdered ==
    \E chat \in ChatRowids, date \in Times :
        /\ source # <<>> => date >= source[Len(source)].date
        /\ WriteRow(MaxOrderedRows, chat, date, 0, TRUE, 0)

NextOrdered == WriteOrdered \/ CycleOk

SpecOrdered == Init /\ [][NextOrdered]_vars

\* The message sets of the chat's conversations
ConversationSets(d, chat) == {AttachedTo(d, c.id) : c \in ConvsOfChat(d, chat)}

MaxEventRows == 3

\* No cycle starts later: each write queues at most one event, and an accepted
\* event takes the sleep and the debounce window that follows it
MaxEventClock == DEBOUNCE_MS + MaxEventRows * (SleepTicks + DEBOUNCE_MS)

\* The Poller has read the modification times before the loop starts (wal.py
\* lines 29-43); seen stands for the remembered times: every write to chat.db
\* changes them
InitEvents ==
    /\ source = <<>>
    /\ attachment = <<>>
    /\ loop = [seen |-> 0] @@ LoopIdle
    /\ db = main(<<>>, <<>>, EmptyDb, FALSE).db
    /\ cache = main(<<>>, <<>>, EmptyDb, FALSE).cache
    /\ watcher = main(<<>>, <<>>, EmptyDb, FALSE).watcher
    /\ hist = Note("init", [skipped |-> {}, restarts |-> 0, failed |-> FALSE, turn |-> 0])

WriteEvent == WriteRow(MaxEventRows, 1, 0, 0, TRUE, 0)

\* wal.py lines 45-83: one turn of the Poller, which compares the times of
\* the files with the remembered ones and remembers the new ones
PollSource ==
    /\ loop.poller = "running"
    /\ loop' = poll_for_changes([loop EXCEPT !.seen = Len(source)],
                                loop.seen # Len(source))
    /\ hist' = Note("poll", hist)
    /\ UNCHANGED <<source, attachment, db, cache, watcher>>

\* The clock advances while the Consumer's sleep or the debounce window of
\* the last cycle is running; afterwards the Consumer no longer looks at it
TickTimed ==
    /\ \/ loop.pc = "sleep" /\ loop.now < loop.wake
       \/ Debounced(loop.now, loop.last_sync_time)
    /\ loop.now < MaxEventClock
    /\ loop' = [loop EXCEPT !.now = @ + 1]
    /\ hist' = Note("tick", hist)
    /\ UNCHANGED <<source, attachment, db, cache, watcher>>

LoopPassOk == \E tieHigh \in BOOLEAN : LoopPass("none", tieHigh)

NextEvents ==
    \/ WriteEvent
    \/ TickTimed
    \/ PollSource
    \/ Dequeue
    \/ IdlePass
    \/ LoopPassOk

\* The guard of LoopPassOk: the sleep is over and chat.db has new rows
PassEnabled ==
    /\ loop.pc = "sleep"
    /\ loop.now >= loop.wake
    /\ watcher.running
    /\ fetch_new_messages(source, watcher.current_message_rowid).rows # <<>>

\* Both tasks keep running and time passes: the Poller polls again after
\* each sleep, the Consumer takes an event that is queued and makes its pass
\* when its sleep is over.  The last conjunct is WF_vars(LoopPassOk) with the
\* guard of the pass written out.
SpecEvents ==
    /\ InitEvents
    /\ [][NextEvents]_vars
    /\ WF_vars(TickTimed)
    /\ WF_vars(PollSource)
    /\ WF_vars(Dequeue)
    /\ WF_vars(IdlePass)
    /\ ([]<>(~PassEnabled) \/ []<><<LoopPassOk>>_vars)

\* C38: while the Poller and the Consumer keep running and the store does
\* not fail, every message row written to chat.db is eventually in the
\* store, also a row written after a cycle's extraction whose event is taken
\* off the queue within DEBOUNCE_MS of that cycle and that no other write
\* follows.
C38_EveryRowEventuallyStored ==
    \A k \in 1..MaxEventRows :
        (Len(source) >= k) ~> (Len(source) >= k /\ source[k].guid \in StoredGuids(db))

\* ---------------------------------------------------------------------------
\* The start of the process, statement by statement, while Messages writes to
\* chat.db (run_live_sync.py lines 15-50)
\* ---------------------------------------------------------------------------

MaxBootRows == 3

\* The process is about to call import_live_data on an empty store
InitBoot ==
    /\ source = <<>>
    /\ attachment = <<>>
    /\ loop = [LoopIdle EXCEPT !.pc = "import"]
    /\ db = EmptyDb
    /\ cache = reset_all_caches
    /\ watcher = [running |-> FALSE, connection |-> FALSE, current_watermark_ns |-> 0,
                  current_message_rowid |-> 0, current_attachment_rowid |-> 0]
    /\ hist = Note("init", [skipped |-> {}, restarts |-> 0, failed |-> FALSE, turn |-> 0])

BootWrite == \E chat \in ChatRowids : WriteRow(MaxBootRows, chat, 0, 0, TRUE, 0)

\* run_live_sync.py line 17: import_live_data() reads chat.db as it is now
BootImport(tieHigh) ==
    /\ loop.pc = "import"
    /\ db' = import_live_data(source, attachment, db, tieHigh)
    /\ loop' = [loop EXCEPT !.pc = "watermarks"]
    /\ hist' = Note("import", hist)
    /\ UNCHANGED <<source, attachment, cache, watcher>>

\* run_live_sync.py lines 21-24: the watermarks are initialised from the
\* store and from MAX(ROWID) of chat.db as it is now
BootWatermarks ==
    /\ loop.pc = "watermarks"
    /\ db' = initialize_rowid_watermarks_if_missing(source, attachment,
                 initialize_watermark_if_missing(db))
    /\ loop' = [loop EXCEPT !.pc = "caches"]
    /\ hist' = Note("watermarks", hist)
    /\ UNCHANGED <<source, attachment, cache, watcher>>

\* run_live_sync.py lines 26-50 and watch() lines 98-100: the caches are
\* loaded and the watcher reads its watermarks
BootWatch ==
    /\ loop.pc = "caches"
    /\ cache' = start_watch(source, db).cache
    /\ watcher' = start_watch(source, db).watcher
    /\ loop' = [loop EXCEPT !.pc = "get"]
    /\ hist' = Note("start", hist)
    /\ UNCHANGED <<source, attachment, db>>

NextBoot ==
    \/ BootWrite
    \/ (\E tieHigh \in BOOLEAN : BootImport(tieHigh))
    \/ BootWatermarks
    \/ BootWatch

SpecBoot == InitBoot /\ [][NextBoot]_vars

\* C39: when the watcher has started, every message row of chat.db is in the
\* store or has a row id above the persisted last_message_rowid, however the
\* writes to chat.db fall between the import and the initialisation of the
\* watermarks.
C39_NoRowLostAtStartup ==
    (loop.pc = "get" /\ watcher.running) =>
        \A k \in DOMAIN source :
            \/ source[k].guid \in StoredGuids(db)
            \/ source[k].message_id > db.state.last_message_rowid

\* ---------------------------------------------------------------------------
\* The two reads of a cycle while Messages writes to chat.db (wal.py lines
\* 119-127 and 198-204)
\* ---------------------------------------------------------------------------

MaxReadRows == 2

MaxReadAtts == 2

\* The watcher has started on an empty chat.db; new_messages is what
\* fetch_new_messages returned in the cycle that is under way
InitReads ==
    /\ source = <<>>
    /\ attachment = <<>>
    /\ loop = [new_messages |-> fetch_new_messages(<<>>, 0)] @@ LoopIdle
    /\ db = main(<<>>, <<>>, EmptyDb, FALSE).db
    /\ cache = main(<<>>, <<>>, EmptyDb, FALSE).cache
    /\ watcher = main(<<>>, <<>>, EmptyDb, FALSE).watcher
    /\ hist = Note("init", [skipped |-> {}, restarts |-> 0, failed |-> FALSE, turn |-> 0])

WriteRead == WriteRow(MaxReadRows, 1, 0, 0, TRUE, 0)

AttachRead == \E m \in 1..MaxReadRows : WriteAttachment(MaxReadAtts, m)

\* wal.py lines 121-122: fetch_new_messages reads chat.db
ReadMessages ==
    /\ loop.pc = "get"
    /\ watcher.running
    /\ loop' = [loop EXCEPT !.pc = "fetched",
                   !.new_messages = fetch_new_messages(source, watcher.current_message_rowid)]
    /\ hist' = Note("fetch", hist)
    /\ UNCHANGED <<source, attachment, db, cache, watcher>>

\* wal.py lines 123-206: fetch_new_attachments reads chat.db, and the rest
\* of the cycle for a batch of messages that is not empty
ReadAttachmentsAfterMessages(tieHigh) ==
    /\ loop.pc = "fetched"
    /\ loop.new_messages.rows # <<>>
    /\ AfterSync(loop.new_messages,
                 sync_messages(source, db, cache, loop.new_messages.rows, "none"),
                 "none", tieHigh)
    /\ loop' = [loop EXCEPT !.pc = "get"]
    /\ UNCHANGED <<source, attachment>>

\* wal.py lines 123-127 and 198-204: fetch_new_attachments reads chat.db
\* after fetch_new_messages has found nothing
ReadAttachmentsOnly ==
    /\ loop.pc = "fetched"
    /\ loop.new_messages.rows = <<>>
    /\ LET done == AttachmentPart(db, cache, watcher,
                       fetch_new_attachments(attachment, watcher.current_attachment_rowid))
       IN /\ db' = done.db
          /\ cache' = done.cache
          /\ watcher' = done.watcher
          /\ hist' = [Note("cycle", hist) EXCEPT
                         !.raised = done.raised,
                         !.attachments = done.attachments,
                         !.fail = IF done.raised THEN "sync_attachments" ELSE "none",
                         !.failed = @ \/ done.raised]
    /\ loop' = [loop EXCEPT !.pc = "get"]
    /\ UNCHANGED <<source, attachment>>

NextReads ==
    \/ WriteRead
    \/ AttachRead
    \/ ReadMessages
    \/ (\E tieHigh \in BOOLEAN : ReadAttachmentsAfterMessages(tieHigh))
    \/ ReadAttachmentsOnly

SpecReads == InitReads /\ [][NextReads]_vars

\* C40: between cycles, every attachment row at or below the persisted
\* last_attachment_rowid (no later cycle fetches it) whose message is in the
\* store is in the store too, however the writes to chat.db fall between the
\* cycle's read of the messages and its read of the attachments.
C40_AttachmentOfStoredMessageStored ==
    loop.pc = "get" =>
        \A k \in DOMAIN attachment :
            (/\ attachment[k].ROWID <= db.state.last_attachment_rowid
             /\ \E i \in MsgIds(db) : db.messages[i].guid = attachment[k].message_guid)
                => \E a \in db.attachments : a.guid = attachment[k].guid

====
